---- MODULE Spec2Model ----
(***************************************************************************)
(* FrequencyDomainAnalyzer (src/freq_domain_asset_analysis.py) as a state  *)
(* machine: a caller constructs an analyzer, calls one of its methods,     *)
(* holds the returned value, and drops it before the next call.            *)
(*                                                                         *)
(* Number representation.                                                  *)
(*   Frequencies are fixed point in units of 1/Unit cycles per sample, so  *)
(*   that every band bound of both band tables (0.002 .. 0.5, 1/60 .. 1/3) *)
(*   and both clamp limits (0.001, 0.95) are whole numbers.                *)
(*   Sample values are whole numbers of 1e-10, so the threshold 1e-10 of   *)
(*   calculate_correlation_spectral is the value 1.  NaN is a value of its *)
(*   own, outside the range of the samples.                                *)
(*   Square roots are never taken: a standard deviation or a correlation   *)
(*   is kept as the exact rational under the root.                         *)
(***************************************************************************)
EXTENDS Integers, Sequences, FiniteSets, TLC

VARIABLES analyzer, pc, args, ret, input_now,
          session_state, uploaded_file, page

\* the state of the dashboard (app.py): st.session_state, the file held by
\* the uploader, and what the last run of the script put on the page
dashboard == <<session_state, uploaded_file, page>>

\* the state of a caller of the analyzer
library == <<analyzer, pc, args, ret, input_now>>

vars == <<analyzer, pc, args, ret, input_now, session_state, uploaded_file, page>>

----------------------------------------------------------------------------
(* Bounds of the model *)

\* largest sample amplitude (in units of 1e-10)
MaxAmp == 4
\* longest series
MaxLen == 25
\* largest filter order passed to zero_phase_filter
MaxOrder == 3

----------------------------------------------------------------------------
(* Numbers *)

\* frequency unit: 1/3000 cycles per sample
Unit == 3000

NaN == 0 - 1000000

IsNaN(x) == x = NaN

None == [isNone |-> TRUE, v |-> 0]

Some(x) == [isNone |-> FALSE, v |-> x]

\* Python's builtin max(a, b): b if b > a else a
PyMax(a, b) == IF b > a THEN b ELSE a

\* Python's builtin min(a, b): b if b < a else a
PyMin(a, b) == IF b < a THEN b ELSE a

Abs(x) == IF x < 0 THEN 0 - x ELSE x

RECURSIVE SumUpTo(_, _)
SumUpTo(s, i) == IF i = 0 THEN 0 ELSE s[i] + SumUpTo(s, i - 1)

SumSeq(s) == SumUpTo(s, Len(s))

HasNaN(s) == \E i \in 1..Len(s) : IsNaN(s[i])

\* np.zeros_like(data): a new array of the same length, every entry 0
zeros_like(data) == [i \in 1..Len(data) |-> 0]

----------------------------------------------------------------------------
(* Series the caller passes in: a motif repeated to a given length.        *)

Motifs ==
    { <<2>>, <<0, 1>>, <<0 - 1, 1>>, <<0, MaxAmp>>, <<MaxAmp, 0>>,
      <<0, MaxAmp, 2>> }

Lens == {1, 2, 12, 13, 22} \cup (25..MaxLen)

Repeat(m, n) == [i \in 1..n |-> m[((i - 1) % Len(m)) + 1]]

SeriesPool == { Repeat(m, n) : m \in Motifs, n \in Lens }

\* Pairs of series for the methods that take two: three lengths, one too
\* short for any filter, one long enough for the low-pass only, one long
\* enough for every filter.
PairLens == {2, 13, 22}

PairPool == { Repeat(m, n) : m \in Motifs, n \in PairLens }

----------------------------------------------------------------------------
(* __init__: the band table of each sampling frequency, in dict order.     *)

\* The daily table with short_term starting at 0.475, which the clamp puts
\* at 0.95, the clamped upper bound.
BandsDShortAtNyquist ==
    << [name |-> "short_term",     low |-> 1425, high |-> 1500],
       [name |-> "medium_term",    low |-> 24,   high |-> 120],
       [name |-> "business_cycle", low |-> 6,    high |-> 24],
       [name |-> "long_term",      low |-> 0,    high |-> 6] >>

BandsD ==
    << [name |-> "short_term",     low |-> 120, high |-> 1500],
       [name |-> "medium_term",    low |-> 24,  high |-> 120],
       [name |-> "business_cycle", low |-> 6,   high |-> 24],
       [name |-> "long_term",      low |-> 0,   high |-> 6] >>

\* The monthly table with medium_term starting at 1/10, above the end of
\* business_cycle at 1/12.
BandsMGap ==
    << [name |-> "short_term",     low |-> 1000, high |-> 1500],
       [name |-> "medium_term",    low |-> 300,  high |-> 1000],
       [name |-> "business_cycle", low |-> 50,   high |-> 250],
       [name |-> "long_term",      low |-> 0,    high |-> 50] >>

BandsM ==
    << [name |-> "short_term",     low |-> 1000, high |-> 1500],
       [name |-> "medium_term",    low |-> 250,  high |-> 1000],
       [name |-> "business_cycle", low |-> 50,   high |-> 250],
       [name |-> "long_term",      low |-> 0,    high |-> 50] >>

\* the sampling frequencies the constructor's docstring lists
SamplingFrequencies == {"D", "W", "M"}

\* The object after __init__(sampling_frequency).  freq_bands is set only in
\* the 'D' and 'M' branches; has_freq_bands says whether the attribute exists.
NewAnalyzer(sampling_frequency) ==
    [ sampling_freq  |-> sampling_frequency,
      has_freq_bands |-> sampling_frequency \in {"D", "M"},
      freq_bands     |-> IF sampling_frequency = "D" THEN BandsD
                         ELSE IF sampling_frequency = "M" THEN BandsM
                         ELSE << >> ]

----------------------------------------------------------------------------
(* scipy.signal as zero_phase_filter uses it.  What the library computes   *)
(* from valid coefficients is not fixed by this repository: lib names the  *)
(* outcome, "pass" (the signal comes through), "block" (it is removed),    *)
(* "nan" (unstable coefficients give non-finite output without an error)   *)
(* or "error" (the forward-backward application raises).                   *)

LibOutcomes == {"pass", "block", "nan", "error"}

nyquist == 1500

ClampLo == 3

ClampHi == 2850

\* x / nyquist, in units of 1/Unit
Normalize(freq) == (freq * Unit) \div nyquist

\* Only the upper clamp is applied.
ClampUpperOnly(x) == PyMin(x, ClampHi)

\* min(max(x, 0.001), 0.95)
Clamp(x) == PyMin(PyMax(x, ClampLo), ClampHi)

\* signal.butter(order, Wn, btype): raises unless every 0 < Wn < 1; returns
\* order + 1 coefficients (low, high) or 2 * order + 1 (band).
butter(order, Wn, btype) ==
    [ raises |-> \E i \in 1..Len(Wn) : ~(0 < Wn[i] /\ Wn[i] < Unit),
      ncoef  |-> IF btype = "band" THEN 2 * order + 1 ELSE order + 1 ]

\* signal.filtfilt(b, a, data), default padding: padlen = 3 * max(len(a), len(b));
\* raises unless len(data) > padlen; the output has the length of the input.
filtfilt(ncoef, data, lib) ==
    LET padlen == 3 * ncoef IN
    IF Len(data) <= padlen \/ lib = "error"
    THEN [raises |-> TRUE, out |-> << >>]
    ELSE [raises |-> FALSE,
          out |-> CASE lib = "pass"  -> data
                    [] lib = "block" -> zeros_like(data)
                    [] OTHER         -> [i \in 1..Len(data) |-> NaN]]

\* What one call of zero_phase_filter does:
\*   out          the returned array
\*   same_object  the returned array is the argument itself, not a new array
\*   raised       an exception left the call
\*   warned       the "Warning: Filter failed" line was printed
\*   btype, Wn    the design handed to signal.butter ("none": no design)
\*   applied      signal.filtfilt returned
FilterResult(out, same, warned, btype, Wn, applied) ==
    [ out |-> out, same_object |-> same, raised |-> FALSE, warned |-> warned,
      btype |-> btype, Wn |-> Wn, applied |-> applied ]

\* except Exception as e: print("Warning: Filter failed ..."); return np.zeros_like(data)
FilterFailed(data, btype, Wn) ==
    FilterResult(zeros_like(data), FALSE, TRUE, btype, Wn, FALSE)

\* The handler re-raises instead of returning zeros.
DesignAndApplyReraise(data, order, Wn, btype, lib) ==
    LET d == butter(order, Wn, btype)
        f == filtfilt(d.ncoef, data, lib)
    IN  IF d.raises \/ f.raises
        THEN [FilterFailed(data, btype, Wn) EXCEPT !.raised = TRUE, !.out = << >>]
        ELSE FilterResult(f.out, FALSE, FALSE, btype, Wn, TRUE)

\* try: b, a = signal.butter(...); return signal.filtfilt(b, a, data)
\* except Exception: the handler above
DesignAndApply(data, order, Wn, btype, lib) ==
    LET d == butter(order, Wn, btype)
        f == filtfilt(d.ncoef, data, lib)
    IN  IF d.raises
        THEN FilterFailed(data, btype, Wn)
        ELSE IF f.raises
        THEN FilterFailed(data, btype, Wn)
        ELSE FilterResult(f.out, FALSE, FALSE, btype, Wn, TRUE)

\* The argument itself is returned, not a copy.
ReturnAlias(data) ==
    FilterResult(data, TRUE, FALSE, "none", << >>, FALSE)

\* return data.copy()
ReturnCopy(data) ==
    FilterResult(data, FALSE, FALSE, "none", << >>, FALSE)

\* The comparison is strict: equal cutoffs are not taken as degenerate.
IsDegenerateStrict(low_normalized, high_normalized) ==
    low_normalized > high_normalized

\* if low_normalized >= high_normalized
IsDegenerate(low_normalized, high_normalized) ==
    low_normalized >= high_normalized

\* The single-sided branches are swapped: a high-pass is designed at high_freq.
LowPassSwapped(data, high_freq, order, lib) ==
    DesignAndApply(data, order, << Clamp(Normalize(high_freq)) >>, "high", lib)

\* if low_freq is None: butter(order, clamp(high_freq / nyquist), btype='low')
LowPass(data, high_freq, order, lib) ==
    DesignAndApply(data, order, << Clamp(Normalize(high_freq)) >>, "low", lib)

\* elif high_freq is None: butter(order, clamp(low_freq / nyquist), btype='high')
HighPass(data, low_freq, order, lib) ==
    DesignAndApply(data, order, << Clamp(Normalize(low_freq)) >>, "high", lib)

\* else: both bounds given
BandPass(data, low_freq, high_freq, order, lib) ==
    LET low_normalized  == Clamp(Normalize(low_freq))
        high_normalized == Clamp(Normalize(high_freq))
    IN  IF IsDegenerate(low_normalized, high_normalized)
        THEN FilterResult(zeros_like(data), FALSE, FALSE, "none", << >>, FALSE)
        ELSE DesignAndApply(data, order,
                            << low_normalized, high_normalized >>, "band", lib)

zero_phase_filter(data, low_freq, high_freq, order, lib) ==
    IF low_freq.isNone /\ high_freq.isNone
    THEN ReturnCopy(data)
    ELSE IF low_freq.isNone
    THEN LowPass(data, high_freq.v, order, lib)
    ELSE IF high_freq.isNone
    THEN HighPass(data, low_freq.v, order, lib)
    ELSE BandPass(data, low_freq.v, high_freq.v, order, lib)

----------------------------------------------------------------------------
(* decompose_frequency_bands *)

\* zero_phase_filter's default order
DefaultOrder == 3

BandNames == {"short_term", "medium_term", "business_cycle", "long_term"}

\* The library's outcome for each band's filter.  A blocked band and a failed
\* band both come back as zeros, so the methods that filter every band are
\* driven with the outcomes that differ in what they return.
BandLibs == [BandNames -> LibOutcomes \ {"block"}]

\* Every band, long_term too, is filtered as a band-pass with both bounds.
BandCallAllBandPass(band) ==
    [low_freq |-> Some(band.low), high_freq |-> Some(band.high)]

\* the bounds one band is filtered with: long_term as a low-pass with only
\* the upper bound, every other band with both bounds
BandCall(band) ==
    IF band.name = "long_term"
    THEN [low_freq |-> None, high_freq |-> Some(band.high)]
    ELSE [low_freq |-> Some(band.low), high_freq |-> Some(band.high)]

\* decompose_frequency_bands(returns) with data = returns.values.  libs gives
\* the library's outcome for each band's filter.
\*   raised      self.freq_bands does not exist (AttributeError)
\*   calls       the calls of zero_phase_filter, in order
\*   decomposed  the returned dict
decompose_frequency_bands(self, data, libs) ==
    IF ~self.has_freq_bands
    THEN [raised |-> TRUE, calls |-> << >>, decomposed |-> << >>]
    ELSE
    LET bands == self.freq_bands
        calls == [i \in 1..Len(bands) |->
                    LET c == BandCall(bands[i]) IN
                    [ band |-> bands[i].name,
                      low_freq |-> c.low_freq,
                      high_freq |-> c.high_freq,
                      filtered |-> zero_phase_filter(data, c.low_freq, c.high_freq,
                                      DefaultOrder, libs[bands[i].name]).out ]]
        last(nm) == CHOOSE i \in 1..Len(bands) :
                        /\ bands[i].name = nm
                        /\ \A j \in 1..Len(bands) : bands[j].name = nm => j <= i
    IN  [ raised |-> FALSE,
          calls |-> calls,
          decomposed |-> [nm \in {bands[i].name : i \in 1..Len(bands)} |->
                             calls[last(nm)].filtered] ]

----------------------------------------------------------------------------
(* calculate_volatility_spectral *)

TradingDaysPerYear == 252

MonthsPerYear == 12

\* the square of the annualization factor: sqrt(252) for 'D', sqrt(12) for 'M'
AnnualizationSq(self, annualize) ==
    IF annualize /\ self.sampling_freq = "D" THEN TradingDaysPerYear
    ELSE IF annualize /\ self.sampling_freq = "M" THEN MonthsPerYear
    ELSE 1

\* np.sqrt(x) of the rational x = num / den, kept under the root; the root of
\* a negative number is NaN
Sqrt(num, den) == [nan |-> num < 0, sq_num |-> num, sq_den |-> den]

SumSq(s) == SumSeq([i \in 1..Len(s) |-> s[i] * s[i]])

\* n^2 times the population variance of s
VarNum(s) == Len(s) * SumSq(s) - SumSeq(s) * SumSeq(s)

\* np.std(s) times the annualization factor, as the number under the root
StdTimes(s, factorSq) ==
    IF Len(s) = 0 \/ HasNaN(s)
    THEN [nan |-> TRUE, sq_num |-> 0, sq_den |-> 1]
    ELSE Sqrt(VarNum(s) * factorSq, Len(s) * Len(s))

\* The shapes a periodogram can have, as far as the bands see it: the power
\* of bin k of n samples.  Bin 0 holds no power (the mean is removed).
Spectra == {"zero", "flat", "low", "high"}

Power(spectrum, k, n) ==
    IF k = 0 \/ spectrum = "zero" THEN 0
    ELSE IF spectrum = "flat" THEN 2
    ELSE IF spectrum = "low" THEN (IF k = 1 THEN MaxAmp ELSE 0)
    ELSE (IF k = n \div 2 THEN MaxAmp ELSE 0)

\* signal.periodogram(data, scaling='density'): bins 0 .. n // 2, bin k at
\* the frequency k / n, with a power >= 0 in each bin.  bins is the set of
\* the bins' numbers.
periodogram(data, spectrum) ==
    [ n    |-> Len(data),
      bins |-> IF Len(data) = 0 THEN {} ELSE 0..(Len(data) \div 2),
      psd  |-> [k \in 0..(Len(data) \div 2) |-> Power(spectrum, k, Len(data))] ]

\* The upper end of the band is left out: freqs < high.
BandMaskHalfOpen(band, pg) ==
    IF band.name = "long_term"
    THEN {k \in pg.bins : k * Unit >= 0 /\ k * Unit < band.high * pg.n}
    ELSE {k \in pg.bins : k * Unit >= band.low * pg.n
                            /\ k * Unit < band.high * pg.n}

\* mask = (freqs >= low) & (freqs <= high), for long_term (freqs >= 0) &
\* (freqs <= high): the bins k with low <= k / n <= high
BandMask(band, pg) ==
    IF band.name = "long_term"
    THEN {k \in pg.bins : k * Unit >= 0 /\ k * Unit <= band.high * pg.n}
    ELSE {k \in pg.bins : k * Unit >= band.low * pg.n
                            /\ k * Unit <= band.high * pg.n}

\* 2n times np.trapz(psd[mask], freqs[mask]): the bins of a mask are
\* consecutive and 1 / n apart
Trapz2n(mask, pg) ==
    SumSeq([i \in 1..(Cardinality(mask) - 1) |->
                LET k == (CHOOSE m \in mask : \A m2 \in mask : m <= m2) + i - 1
                IN  pg.psd[k] + pg.psd[k + 1]])

\* The empty mask is integrated like any other: the root of an empty
\* integral is taken as it comes.
BandVolatilityUnguarded(mask, pg, factorSq) ==
    IF mask # {}
    THEN Sqrt(Abs(Trapz2n(mask, pg)) * factorSq, 2 * pg.n)
    ELSE [nan |-> TRUE, sq_num |-> 0, sq_den |-> 1]

\* std_dev of one band: sqrt(abs(variance)) if the mask holds a bin, else 0.0,
\* times the annualization factor
BandVolatility(mask, pg, factorSq) ==
    IF mask # {}
    THEN Sqrt(Abs(Trapz2n(mask, pg)) * factorSq, 2 * pg.n)
    ELSE Sqrt(0, 1)

\* The report is returned without its 'total' entry.
VolatilityReportNoTotal(bandvol, total_vol) == bandvol

\* volatilities[band_name] = std_dev for each band, then volatilities['total']
VolatilityReport(bandvol, total_vol) ==
    [key \in DOMAIN bandvol \cup {"total"} |->
        IF key = "total" THEN total_vol ELSE bandvol[key]]

\* calculate_volatility_spectral(returns, annualize) with data = returns.values.
\*   raised        self.freq_bands does not exist (AttributeError)
\*   masks         the bins each band integrates
\*   volatilities  the returned dict
calculate_volatility_spectral(self, data, annualize, spectrum) ==
    IF ~self.has_freq_bands
    THEN [raised |-> TRUE, masks |-> << >>, volatilities |-> << >>]
    ELSE
    LET pg       == periodogram(data, spectrum)
        bands    == self.freq_bands
        factorSq == AnnualizationSq(self, annualize)
        band(nm) == bands[CHOOSE i \in 1..Len(bands) :
                        /\ bands[i].name = nm
                        /\ \A j \in 1..Len(bands) : bands[j].name = nm => j <= i]
        names    == {bands[i].name : i \in 1..Len(bands)}
        masks    == [nm \in names |-> BandMask(band(nm), pg)]
        bandvol  == [nm \in names |-> BandVolatility(masks[nm], pg, factorSq)]
    IN  [ raised |-> FALSE,
          masks |-> masks,
          volatilities |-> VolatilityReport(bandvol, StdTimes(data, factorSq)) ]

----------------------------------------------------------------------------
(* calculate_correlation_spectral *)

\* the threshold 1e-10 on the standard deviation of a filtered signal
Eps == 1

\* a correlation coefficient num / sqrt(dx * dy), or NaN
CorrNaN == [nan |-> TRUE, num |-> 0, dx |-> 1, dy |-> 1]

\* the float 0.0
CorrZero == [nan |-> FALSE, num |-> 0, dx |-> 1, dy |-> 1]

\* n times the sum of the products, minus the product of the sums
CovNum(x, y) ==
    Len(x) * SumSeq([i \in 1..Len(x) |-> x[i] * y[i]]) - SumSeq(x) * SumSeq(y)

\* The covariance is returned without dividing by the two standard
\* deviations.
corrcoefCovariance(x, y) ==
    IF HasNaN(x) \/ HasNaN(y) \/ Len(x) < 2 \/ VarNum(x) = 0 \/ VarNum(y) = 0
    THEN CorrNaN
    ELSE [nan |-> FALSE, num |-> CovNum(x, y), dx |-> Len(x), dy |-> Len(x)]

\* np.corrcoef(x, y)[0, 1] of two arrays of one length: NaN when an array
\* holds a NaN, has fewer than two entries or has no variance
corrcoef(x, y) ==
    IF HasNaN(x) \/ HasNaN(y) \/ Len(x) < 2 \/ VarNum(x) = 0 \/ VarNum(y) = 0
    THEN CorrNaN
    ELSE [nan |-> FALSE, num |-> CovNum(x, y), dx |-> VarNum(x), dy |-> VarNum(y)]

\* np.std(x) > 1e-10; a comparison with NaN is false
StdAboveEps(x) ==
    /\ Len(x) > 0
    /\ ~HasNaN(x)
    /\ VarNum(x) > Eps * Eps * Len(x) * Len(x)

\* The threshold is taken inclusively: std >= 1e-10.
BandCorrelationInclusive(filtered1, filtered2) ==
    IF /\ Len(filtered1) > 0 /\ ~HasNaN(filtered1)
       /\ VarNum(filtered1) >= Eps * Eps * Len(filtered1) * Len(filtered1)
       /\ Len(filtered2) > 0 /\ ~HasNaN(filtered2)
       /\ VarNum(filtered2) >= Eps * Eps * Len(filtered2) * Len(filtered2)
    THEN LET correlation == corrcoef(filtered1, filtered2) IN
         IF correlation.nan THEN CorrZero ELSE correlation
    ELSE CorrZero

\* one band: if std1 > 1e-10 and std2 > 1e-10, the correlation of the two
\* filtered signals with NaN replaced by 0.0; else 0.0
BandCorrelation(filtered1, filtered2) ==
    IF StdAboveEps(filtered1) /\ StdAboveEps(filtered2)
    THEN LET correlation == corrcoef(filtered1, filtered2) IN
         IF correlation.nan THEN CorrZero ELSE correlation
    ELSE CorrZero

\* total_corr = np.corrcoef(returns1.values, returns2.values)[0, 1], stored
\* as it comes
TotalCorrelation(data1, data2) == corrcoef(data1, data2)

\* calculate_correlation_spectral(returns1, returns2), the two series of one
\* length (two columns of one table).  A band's filter is one operator for
\* both series: libs gives its outcome.
\*   raised        self.freq_bands does not exist (AttributeError)
\*   filtered1/2   the two decompositions
\*   correlations  the returned dict
calculate_correlation_spectral(self, data1, data2, libs) ==
    LET decomposed1 == decompose_frequency_bands(self, data1, libs)
        decomposed2 == decompose_frequency_bands(self, data2, libs)
    IN  IF decomposed1.raised
        THEN [raised |-> TRUE, filtered1 |-> << >>, filtered2 |-> << >>,
              correlations |-> << >>]
        ELSE
        LET names == {self.freq_bands[i].name : i \in 1..Len(self.freq_bands)}
            total_corr == TotalCorrelation(data1, data2)
        IN  [ raised |-> FALSE,
              filtered1 |-> decomposed1.decomposed,
              filtered2 |-> decomposed2.decomposed,
              correlations |->
                 [key \in names \cup {"total"} |->
                    IF key = "total" THEN total_corr
                    ELSE BandCorrelation(decomposed1.decomposed[key],
                                         decomposed2.decomposed[key])] ]

----------------------------------------------------------------------------
(* calculate_expected_return *)

\* The mean is scaled whether or not annualize is set.
ReturnFactorAlways(self, annualize) ==
    IF self.sampling_freq = "D" THEN TradingDaysPerYear
    ELSE IF self.sampling_freq = "M" THEN MonthsPerYear
    ELSE 1

\* the factor on the mean: 252 in 'D', 12 in 'M', when annualize
ReturnFactor(self, annualize) ==
    IF annualize /\ self.sampling_freq = "D" THEN TradingDaysPerYear
    ELSE IF annualize /\ self.sampling_freq = "M" THEN MonthsPerYear
    ELSE 1

\* np.mean(returns) times factor, as the fraction num / den
MeanTimes(s, factor) ==
    IF Len(s) = 0 \/ HasNaN(s)
    THEN [nan |-> TRUE, num |-> 0, den |-> 1]
    ELSE [nan |-> FALSE, num |-> SumSeq(s) * factor, den |-> Len(s)]

\* calculate_expected_return(returns, annualize): the dict with 'total'
calculate_expected_return(self, data, annualize) ==
    [total |-> MeanTimes(data, ReturnFactor(self, annualize))]

----------------------------------------------------------------------------
(* rolling_analysis.  The date of a row is the position (from 0) of the    *)
(* table row whose index label it carries.                                 *)

\* The stop of the range is taken inclusively.
RangeInclusive(stop, step) ==
    [k \in 1..(IF stop < 0 THEN 0 ELSE (stop \div step) + 1) |-> (k - 1) * step]

\* range(0, stop, step) for a step of at least 1
Range(stop, step) ==
    [k \in 1..(IF stop <= 0 THEN 0 ELSE (stop + step - 1) \div step) |->
        (k - 1) * step]

\* series.iloc[start:end], positions from 0, end excluded
iloc(series, start, end) == SubSeq(series, start + 1, PyMin(end, Len(series)))

\* rolling_analysis(returns, window, step) for a window and a step of at
\* least 1; spectrum is the shape of the periodograms.
\*   raised   self.freq_bands does not exist (AttributeError in the first
\*            window)
\*   results  one row per start: date, and '<asset>_vol' for each asset
rolling_analysis(self, returns, window, step, spectrum) ==
    LET starts == Range(Len(returns[1]) - window, step) IN
    IF Len(starts) > 0 /\ ~self.has_freq_bands
    THEN [raised |-> TRUE, results |-> << >>]
    ELSE [ raised  |-> FALSE,
           results |->
             [k \in 1..Len(starts) |->
                LET start == starts[k]
                    end   == start + window
                IN  [ date |-> end - 1,
                      vol  |-> [asset \in 1..Len(returns) |->
                                  calculate_volatility_spectral(self,
                                      iloc(returns[asset], start, end), TRUE,
                                      spectrum).volatilities["total"]] ]] ]

----------------------------------------------------------------------------
(* generate_summary_report.  A table is a sequence of columns of one       *)
(* length; an asset is named by the position of its column.                *)

\* vol['total'] > 0; a comparison with NaN is false
VolPositive(vol) == ~vol.nan /\ vol.sq_num > 0

\* the quotient a / v of a mean and a volatility
Divide(a, v) ==
    [ int_zero      |-> FALSE,
      zero_division |-> ~v.nan /\ v.sq_num = 0,
      dividend      |-> a,
      divisor       |-> v ]

\* the int 0
IntZero ==
    [ int_zero      |-> TRUE,
      zero_division |-> FALSE,
      dividend      |-> [nan |-> FALSE, num |-> 0, den |-> 1],
      divisor       |-> Sqrt(1, 1) ]

\* The quotient is taken without looking at the volatility.
SharpeRatioUnguarded(exp_ret, vol) == Divide(exp_ret, vol)

\* exp_ret['total'] / vol['total'] if vol['total'] > 0 else 0
SharpeRatio(exp_ret, vol) ==
    IF VolPositive(vol) THEN Divide(exp_ret, vol) ELSE IntZero

\* one entry of summary_data
SummaryRow(self, asset, data, spectrum) ==
    LET exp_ret == calculate_expected_return(self, data, TRUE)
        vol     == calculate_volatility_spectral(self, data, TRUE, spectrum).volatilities
    IN  [ Asset              |-> asset,
          Expected_Return    |-> exp_ret.total,
          Volatility         |-> vol["total"],
          Sharpe_Ratio       |-> SharpeRatio(exp_ret.total, vol["total"]),
          Short_Term_Vol     |-> vol["short_term"],
          Medium_Term_Vol    |-> vol["medium_term"],
          Business_Cycle_Vol |-> vol["business_cycle"],
          Long_Term_Vol      |-> vol["long_term"] ]

\* pd.DataFrame(index=assets, columns=assets): every cell starts as NaN
EmptyFrame(n) == [cell \in (1..n) \X (1..n) |-> CorrNaN]

\* the float 1.0 written on the diagonal
CorrOne == [nan |-> FALSE, num |-> 1, dx |-> 1, dy |-> 1]

\* the k-th pair of the two nested loops over enumerate(assets)
LoopPair(k, n) == << ((k - 1) \div n) + 1, ((k - 1) % n) + 1 >>

\* The estimator is called for every pair of distinct assets, in both
\* orders.
RECURSIVE CorrelationCallsBothOrders(_, _)
CorrelationCallsBothOrders(k, n) ==
    IF k > n * n THEN << >>
    ELSE IF LoopPair(k, n)[1] # LoopPair(k, n)[2]
         THEN << LoopPair(k, n) >> \o CorrelationCallsBothOrders(k + 1, n)
         ELSE CorrelationCallsBothOrders(k + 1, n)

\* the pairs for which the loops from iteration k on call
\* calculate_correlation_spectral, in the order of the calls
RECURSIVE CorrelationCallsFrom(_, _)
CorrelationCallsFrom(k, n) ==
    IF k > n * n THEN << >>
    ELSE IF LoopPair(k, n)[1] < LoopPair(k, n)[2]
         THEN << LoopPair(k, n) >> \o CorrelationCallsFrom(k + 1, n)
         ELSE CorrelationCallsFrom(k + 1, n)

\* the two nested loops from iteration k on: 1.0 where i == j; where i < j
\* corr['total'] into the cell and into its mirror; nothing where i > j
RECURSIVE FillCorrMatrix(_, _, _, _)
FillCorrMatrix(corr_matrix, k, n, total) ==
    IF k > n * n THEN corr_matrix
    ELSE
    LET i == LoopPair(k, n)[1]
        j == LoopPair(k, n)[2]
    IN  FillCorrMatrix(
            IF i = j THEN [corr_matrix EXCEPT ![<<i, j>>] = CorrOne]
            ELSE IF i < j
                 THEN [corr_matrix EXCEPT ![<<i, j>>] = total[<<i, j>>],
                                          ![<<j, i>>] = total[<<i, j>>]]
                 ELSE corr_matrix,
            k + 1, n, total)

\* generate_summary_report(returns): the summary table and the correlation
\* matrix.  spectrum is the shape of the periodograms, libs the outcome of
\* each band's filter.
\*   raised        self.freq_bands does not exist (AttributeError)
\*   summary_df    one row per asset
\*   calls         the pairs given to calculate_correlation_spectral
\*   corr_matrix   the matrix, cells indexed by <<row, column>>
generate_summary_report(self, returns, spectrum, libs) ==
    LET n_assets == Len(returns) IN
    IF ~self.has_freq_bands
    THEN [raised |-> TRUE, summary_df |-> << >>, calls |-> << >>,
          corr_matrix |-> << >>]
    ELSE
    LET calls == CorrelationCallsFrom(1, n_assets)
        total == [pair \in {calls[k] : k \in 1..Len(calls)} |->
                    calculate_correlation_spectral(self, returns[pair[1]],
                        returns[pair[2]], libs).correlations["total"]]
    IN  [ raised      |-> FALSE,
          summary_df  |-> [asset \in 1..n_assets |->
                             SummaryRow(self, asset, returns[asset], spectrum)],
          calls       |-> calls,
          corr_matrix |-> FillCorrMatrix(EmptyFrame(n_assets), 1, n_assets, total) ]

----------------------------------------------------------------------------
(* stl_decomposition.  A component is a series of fractions of one         *)
(* denominator: num holds the numerators, den the denominator.  What       *)
(* statsmodels' STL makes of a series is not fixed by this repository: fit *)
(* names the outcome, "error" (the import, the constructor or the fit      *)
(* raises) or the share of the series the fit puts into the seasonal       *)
(* component, "trend" (none), "quarter", "half", "seasonal" (all of it),   *)
(* "amplified" (twice the series, the residual taking the difference).     *)
(* STL defines resid as the observed series minus seasonal minus trend.    *)

StlFits == {"trend", "quarter", "half", "seasonal", "amplified", "error"}

\* STL(returns, period=period, seasonal=13) raises for a period below 2
StlRaises(period, fit) == period < 2 \/ fit = "error"

\* the series x scaled by c, as numerators
Scaled(x, c) == [i \in 1..Len(x) |-> x[i] * c]

\* result.trend, result.seasonal, result.resid, in quarters
StlFit(x, fit) ==
    LET parts == IF fit = "trend"         THEN <<4, 0, 0>>
                 ELSE IF fit = "quarter"  THEN <<3, 1, 0>>
                 ELSE IF fit = "half"     THEN <<2, 2, 0>>
                 ELSE IF fit = "seasonal" THEN <<0, 4, 0>>
                 ELSE <<0, 8, 0 - 4>>
    IN  [ trend    |-> [num |-> Scaled(x, parts[1]), den |-> 4],
          seasonal |-> [num |-> Scaled(x, parts[2]), den |-> 4],
          resid    |-> [num |-> Scaled(x, parts[3]), den |-> 4] ]

\* returns.rolling(window=period, center=True).mean(): at position i the
\* mean of the window that ends (period - 1) // 2 positions after i, NaN
\* where the window is not inside the series; numerators over period
RollingMean(x, period) ==
    [i \in 1..Len(x) |->
        LET last  == i + ((period - 1) \div 2)
            first == last - period + 1
        IN  IF first >= 1 /\ last <= Len(x)
            THEN SumSeq([k \in 1..period |-> x[first + k - 1]])
            ELSE NaN]

\* returns - trend, over the denominator of trend; NaN where trend is NaN
Minus(x, trend, den) ==
    [i \in 1..Len(x) |->
        IF IsNaN(x[i]) \/ IsNaN(trend[i]) THEN NaN ELSE x[i] * den - trend[i]]

\* series.fillna(0)
fillna0(s) == [i \in 1..Len(s) |-> IF IsNaN(s[i]) THEN 0 ELSE s[i]]

\* pd.Series(0, index=returns.index)
ZeroSeries(returns) == [i \in 1..Len(returns) |-> 0]

\* the call is left by an exception
StlRaised(period) ==
    [ raised    |-> TRUE,
      fell_back |-> FALSE,
      period    |-> period,
      original  |-> [num |-> << >>, den |-> 1],
      trend     |-> [num |-> << >>, den |-> 1],
      seasonal  |-> [num |-> << >>, den |-> 1],
      residual  |-> [num |-> << >>, den |-> 1] ]

\* returns.rolling(window=period, center=True) raises ValueError ("window
\* must be an integer 0 or greater") for a negative window
RollingRaises(period) == period < 0

\* There is no except branch: a failure of the fit leaves the call.
StlFallbackRaises(returns, period) == StlRaised(period)

\* the except branch of stl_decomposition
StlFallback(returns, period) ==
    IF RollingRaises(period) THEN StlRaised(period)
    ELSE
    LET trend    == RollingMean(returns, period)
        residual == Minus(returns, trend, period)
        seasonal == ZeroSeries(returns)
    IN  [ raised    |-> FALSE,
          fell_back |-> TRUE,
          period    |-> period,
          original  |-> [num |-> returns, den |-> 1],
          trend     |-> [num |-> fillna0(trend), den |-> period],
          seasonal  |-> [num |-> seasonal, den |-> 1],
          residual  |-> [num |-> fillna0(residual), den |-> period] ]

\* the default of the parameter period of stl_decomposition
DefaultPeriod == 21

\* stl_decomposition(returns, period) with an integer period other than 0;
\* period is None when the caller leaves it out
stl_decomposition(self, returns, period_arg, fit) ==
    LET period == IF period_arg = None THEN DefaultPeriod ELSE period_arg.v IN
    IF StlRaises(period, fit)
    THEN StlFallback(returns, period)
    ELSE LET result == StlFit(returns, fit) IN
         [ raised    |-> FALSE,
           fell_back |-> FALSE,
           period    |-> period,
           original  |-> [num |-> returns, den |-> 1],
           trend     |-> result.trend,
           seasonal  |-> result.seasonal,
           residual  |-> result.resid ]

----------------------------------------------------------------------------
(* generate_stl_summary *)

\* the periods chosen when period is None
DailyPeriod == 21

MonthlyPeriod == 12

OtherPeriod == 12

\* if period is None: 21 in 'D', 12 in 'M', else 12
SummaryPeriod(self, period_arg) ==
    IF period_arg = None
    THEN IF self.sampling_freq = "D" THEN DailyPeriod
         ELSE IF self.sampling_freq = "M" THEN MonthlyPeriod
         ELSE OtherPeriod
    ELSE period_arg.v

\* the square of the factor on the four volatilities: 252 in 'D', 12 in 'M'
StlFactorSq(self) ==
    IF self.sampling_freq = "D" THEN TradingDaysPerYear
    ELSE IF self.sampling_freq = "M" THEN MonthsPerYear
    ELSE 1

\* series.dropna()
dropna(s) == SelectSeq(s, LAMBDA v : ~IsNaN(v))

\* np.std of a component, times the factor
ComponentStd(component, factorSq) ==
    IF Len(component.num) = 0 \/ HasNaN(component.num)
    THEN [nan |-> TRUE, sq_num |-> 0, sq_den |-> 1]
    ELSE Sqrt(VarNum(component.num) * factorSq,
              Len(component.num) * Len(component.num)
                  * component.den * component.den)

RECURSIVE GCD(_, _)
GCD(a, b) == IF b = 0 THEN a ELSE GCD(b, a % b)

\* a quotient of two volatilities, kept as its square in lowest terms
\* (the volatilities are not negative)
VolRatio(a, b) ==
    LET num == a.sq_num * b.sq_den
        den == a.sq_den * b.sq_num
        g   == GCD(num, den)
    IN  [nan |-> a.nan \/ b.nan, sq_num |-> num \div g, sq_den |-> den \div g]

\* seasonal_vol / total_vol if total_vol > 0 else 0
RawStrength(seasonal_vol, total_vol) ==
    IF VolPositive(total_vol) THEN VolRatio(seasonal_vol, total_vol)
    ELSE Sqrt(0, 1)

\* No baseline is taken off.
BaselineZero == [num |-> 0, den |-> 20]

\* baseline = 0.35
Baseline == [num |-> 7, den |-> 20]

\* raw_strength < baseline; a comparison with NaN is false
BelowBaseline(raw_strength) ==
    /\ ~raw_strength.nan
    /\ raw_strength.sq_num * Baseline.den * Baseline.den
          < Baseline.num * Baseline.num * raw_strength.sq_den

\* 1.0 < raw_strength, which is 1.0 < (raw_strength - baseline) / (1.0 - baseline)
AboveOne(raw_strength) ==
    ~raw_strength.nan /\ raw_strength.sq_den < raw_strength.sq_num

\* A seasonal strength: 0.0 ("zero"), 1.0 ("one") or the rescaled excess
\* (raw - baseline) / (1.0 - baseline) of raw ("scaled").
\* The rescaled excess is returned as it is.
SeasonalStrengthNoClip(raw_strength) ==
    IF BelowBaseline(raw_strength)
    THEN [kind |-> "zero", raw |-> raw_strength]
    ELSE [kind |-> "scaled", raw |-> raw_strength]

\* 0.0 if raw_strength < baseline, else
\* min((raw_strength - baseline) / (1.0 - baseline), 1.0), where the builtin
\* min gives 1.0 only if 1.0 is smaller
SeasonalStrength(raw_strength) ==
    IF BelowBaseline(raw_strength)
    THEN [kind |-> "zero", raw |-> raw_strength]
    ELSE IF AboveOne(raw_strength)
         THEN [kind |-> "one", raw |-> raw_strength]
         ELSE [kind |-> "scaled", raw |-> raw_strength]

\* generate_stl_summary(returns, period); fits gives each asset's outcome of
\* the STL fit.
\*   raised        a call of stl_decomposition raised
\*   period        the period given to stl_decomposition
\*   stl_results   each asset's stl_result
\*   total_vol     each asset's total_vol
\*   raw_strength  each asset's raw_strength
\*   stl_summary   one row per asset
generate_stl_summary(self, returns, period_arg, fits) ==
    LET period      == SummaryPeriod(self, period_arg)
        assets      == 1..Len(returns)
        factorSq    == StlFactorSq(self)
        stl_results == [asset \in assets |->
                          stl_decomposition(self, returns[asset], Some(period),
                                            fits[asset])]
        trend_vol(asset) ==
            ComponentStd([num |-> dropna(stl_results[asset].trend.num),
                          den |-> stl_results[asset].trend.den], factorSq)
        seasonal_vol(asset) ==
            ComponentStd(stl_results[asset].seasonal, factorSq)
        residual_vol(asset) ==
            ComponentStd([num |-> dropna(stl_results[asset].residual.num),
                          den |-> stl_results[asset].residual.den], factorSq)
        total_vol    == [asset \in assets |-> StdTimes(returns[asset], factorSq)]
        raw_strength == [asset \in assets |->
                           RawStrength(seasonal_vol(asset), total_vol[asset])]
    IN  IF \E asset \in assets : stl_results[asset].raised
        THEN [raised |-> TRUE, period |-> period, stl_results |-> << >>,
              total_vol |-> << >>, raw_strength |-> << >>, stl_summary |-> << >>]
        ELSE [ raised       |-> FALSE,
               period       |-> period,
               stl_results  |-> stl_results,
               total_vol    |-> total_vol,
               raw_strength |-> raw_strength,
               stl_summary  |->
                  [asset \in assets |->
                     [ Asset             |-> asset,
                       Trend_Vol         |-> trend_vol(asset),
                       Seasonal_Vol      |-> seasonal_vol(asset),
                       Residual_Vol      |-> residual_vol(asset),
                       Seasonal_Strength |-> SeasonalStrength(raw_strength[asset]) ] ] ]

----------------------------------------------------------------------------
(* The dashboard (app.py).  Streamlit runs the script from top to bottom   *)
(* on every interaction; st.session_state and the widgets' values outlive  *)
(* a run, nothing else does.  A table is its column names and its columns. *)

\* the files a user uploads: three tables of five rows, two of them with
\* the same column names, and a file that pandas cannot read
Files == {"a.csv", "b.csv", "c.csv", "broken.csv"}

\* pd.read_csv(uploaded_file, index_col=0, parse_dates=True)
read_csv(file) ==
    CASE file = "a.csv" ->
           [ raises |-> FALSE,
             df |-> [ columns |-> <<"x", "y">>,
                      data |-> << Repeat(<<0, MaxAmp, 2>>, 5), Repeat(<<2>>, 5) >> ] ]
      [] file = "b.csv" ->
           [ raises |-> FALSE,
             df |-> [ columns |-> <<"y", "z">>,
                      data |-> << Repeat(<<0, MaxAmp>>, 5),
                                  Repeat(<<0, MaxAmp, 2>>, 5) >> ] ]
      [] file = "c.csv" ->
           [ raises |-> FALSE,
             df |-> [ columns |-> <<"x", "y">>,
                      data |-> << Repeat(<<2>>, 5), Repeat(<<0, MaxAmp>>, 5) >> ] ]
      [] OTHER ->
           [ raises |-> TRUE, df |-> [columns |-> << >>, data |-> << >>] ]

\* sample_df: seven asset classes over 1260 days, drawn with seed 42; here
\* two of its columns over five days
sample_df ==
    [ columns |-> <<"govt_bond", "liquidity">>,
      data    |-> << Repeat(<<MaxAmp, 0>>, 5), Repeat(<<0, 1>>, 5) >> ]

\* set(df.columns)
Columns(df) == { df.columns[k] : k \in 1..Len(df.columns) }

\* list(df.columns).index(name), from 1
ColumnIndex(df, name) == CHOOSE k \in 1..Len(df.columns) : df.columns[k] = name

\* the session state after the three "not in st.session_state" checks
NewSession ==
    [ analysis_results |-> None, returns_df |-> None, selected_stl_asset |-> None ]

\* the steps of an analysis run, in the order of the script
AnalysisSteps == <<"summary", "volatility", "stl_summary", "stl_decomposed">>

\* the keys of the report set
ReportKeys ==
    {"summary", "correlation", "volatility", "stl_summary", "stl_decomposed",
     "analyzer"}

\* the keys whose values exist once the steps before step k are done
KeysBefore(k) ==
    IF k = 1 THEN {}
    ELSE IF k = 2 THEN {"summary", "correlation", "analyzer"}
    ELSE IF k = 3 THEN {"summary", "correlation", "analyzer", "volatility"}
    ELSE {"summary", "correlation", "analyzer", "volatility", "stl_summary"}

\* the rows of a frame, their Asset column holding the names of df
Named(rows, df) == [k \in DOMAIN rows |-> [rows[k] EXCEPT !.Asset = df.columns[k]]]

\* vol[band] * 100
Percent(vol) == [value |-> vol, times |-> 100]

\* the element of a set of one element
Only(S) == CHOOSE v \in S : TRUE

\* one entry of volatility_data
VolatilityRow(asset, vol) ==
    [ Asset          |-> asset,
      short_term     |-> Percent(vol["short_term"]),
      medium_term    |-> Percent(vol["medium_term"]),
      business_cycle |-> Percent(vol["business_cycle"]),
      long_term      |-> Percent(vol["long_term"]) ]

\* The values an analysis run computes from df with
\* FrequencyDomainAnalyzer(sampling_frequency='D').  The libraries' part is
\* taken as: flat periodograms, filters that work where the series is long
\* enough, an STL fit that raises (five rows are fewer than two periods).
\* With 'D' and the default periods none of the analyzer's calls raises by
\* itself.
ReportSet(df) ==
    Only({ [ summary        |-> Named(report.summary_df, df),
             correlation    |-> [index |-> df.columns, cells |-> report.corr_matrix],
             volatility     |->
                [k \in 1..Len(df.columns) |->
                    Only({ VolatilityRow(df.columns[k], vol.volatilities) :
                           vol \in {calculate_volatility_spectral(
                                       NewAnalyzer("D"), df.data[k], TRUE, "flat")} })],
             stl_summary    |-> Named(generate_stl_summary(NewAnalyzer("D"), df.data,
                                          None, [k \in 1..Len(df.columns) |-> "error"]
                                      ).stl_summary, df),
             stl_decomposed |->
                [asset \in Columns(df) |->
                    stl_decomposition(NewAnalyzer("D"),
                        df.data[ColumnIndex(df, asset)], None, "error")],
             analyzer       |-> NewAnalyzer("D") ] :
           report \in {generate_summary_report(NewAnalyzer("D"), df.data, "flat",
                                               [nm \in BandNames |-> "pass"])} })

\* the position in AnalysisSteps of the step that raises
StepIndex(fails_at) == CHOOSE k \in 1..Len(AnalysisSteps) : AnalysisSteps[k] = fails_at

\* The report set is a dict with every key, empty at first, that every
\* step writes into as soon as its value exists.
RunAnalysisStoresEarly(analysis_results, df, fails_at) ==
    IF fails_at = "none"
    THEN [analysis_results |-> Some(ReportSet(df)), error |-> FALSE]
    ELSE [ analysis_results |->
             Some(Only({ [key \in ReportKeys |->
                            IF key \in KeysBefore(StepIndex(fails_at))
                            THEN all[key] ELSE << >>] :
                         all \in {ReportSet(df)} })),
           error |-> TRUE ]

\* try: ... st.session_state.analysis_results = {...}
\* except Exception as e: st.error(...).  fails_at names the step in which
\* an exception is raised ("none": in no step).
\*   analysis_results  the value of st.session_state.analysis_results after
\*   error             the message of the except branch is shown
RunAnalysis(analysis_results, df, fails_at) ==
    IF fails_at = "none"
    THEN [analysis_results |-> Some(ReportSet(df)), error |-> FALSE]
    ELSE [analysis_results |-> analysis_results, error |-> TRUE]

\* What a run of the script leaves on the page:
\*   prompt          the upload hint and the sample-data button
\*   df              the table of the preview
\*   results         the report set behind the result tabs
\*   analysis_error  the message of the analysis run's except branch
\*   stl             the STL tab: "none" (no tabs), "shown", or "KeyError"
\*                   (results['stl_decomposed'][selected_asset] raised)
\*   read_error      the message of the outer except branch
Page(prompt, df, results, analysis_error, stl, read_error) ==
    [ prompt |-> prompt, df |-> df, results |-> results,
      analysis_error |-> analysis_error, stl |-> stl, read_error |-> read_error ]

\* the page of a session without a table: the else branch of the script
PromptPage == Page(TRUE, None, None, FALSE, "none", FALSE)

\* if uploaded_file is not None: df = pd.read_csv(...);
\* st.session_state.returns_df = df; else: df = st.session_state.returns_df
Load(session, file) ==
    IF file.isNone
    THEN [session_state |-> session, df |-> session.returns_df.v, error |-> FALSE]
    ELSE [ session_state |-> [session EXCEPT !.returns_df = Some(read_csv(file.v).df)],
           df |-> read_csv(file.v).df, error |-> FALSE ]

\* if analyze_button: the analysis run
Analyze(loaded, analyze_button, fails_at) ==
    IF ~analyze_button THEN loaded
    ELSE Only({ [ session_state |-> [loaded.session_state EXCEPT
                                        !.analysis_results = run.analysis_results],
                  df |-> loaded.df, error |-> run.error ] :
                run \in {RunAnalysis(loaded.session_state.analysis_results,
                                     loaded.df, fails_at)} })

\* the asset the STL tab shows; choice is the asset the user picks in the
\* selectbox in this run (None: the selectbox keeps its index)
SelectedAsset(session, df, choice) ==
    IF ~choice.isNone THEN choice.v
    ELSE IF session.selected_stl_asset.isNone THEN df.columns[1]
    ELSE IF session.selected_stl_asset.v \notin Columns(df) THEN df.columns[1]
    ELSE session.selected_stl_asset.v

\* if st.session_state.analysis_results is not None: the result tabs
Display(analyzed, choice) ==
    IF analyzed.session_state.analysis_results.isNone
    THEN [ session_state |-> analyzed.session_state,
           page |-> Page(FALSE, Some(analyzed.df), None, analyzed.error, "none", FALSE) ]
    ELSE Only({ [ session_state |-> [analyzed.session_state EXCEPT
                                        !.selected_stl_asset = Some(selected_asset)],
                  page |-> Page(FALSE, Some(analyzed.df),
                                analyzed.session_state.analysis_results,
                                analyzed.error,
                                IF selected_asset \in DOMAIN
                                     analyzed.session_state.analysis_results.v.stl_decomposed
                                THEN "shown" ELSE "KeyError",
                                selected_asset \notin DOMAIN
                                     analyzed.session_state.analysis_results.v.stl_decomposed) ] :
                selected_asset \in {SelectedAsset(analyzed.session_state,
                                                  analyzed.df, choice)} })

\* One run of the main area of the script.  file is the uploader's file,
\* analyze_button the value of the analyze button in this run.
Script(session, file, analyze_button, fails_at, choice) ==
    IF file.isNone /\ session.returns_df.isNone
    THEN [session_state |-> session, page |-> PromptPage]
    ELSE IF ~file.isNone /\ read_csv(file.v).raises
    THEN [ session_state |-> session,
           page |-> Page(FALSE, None, None, FALSE, "none", TRUE) ]
    ELSE Only({ Display(analyzed, choice) :
                analyzed \in {Analyze(Load(session, file), analyze_button, fails_at)} })

----------------------------------------------------------------------------
(* The caller *)

\* frequencies a caller passes: absent, 0, below the lower clamp (1/3000),
\* a band bound (0.04), Nyquist (0.5), above Nyquist
FreqInputs ==
    { None, Some(0), Some(1), Some(120), Some(1500), Some(1600) }

Orders == 1..MaxOrder

Idle == [op |-> "idle"]

Init ==
    /\ analyzer = NewAnalyzer("D")
    /\ pc = "idle"
    /\ args = Idle
    /\ ret = Idle
    /\ input_now = << >>
    /\ session_state = NewSession
    /\ uploaded_file = None
    /\ page = PromptPage

\* FrequencyDomainAnalyzer(sampling_frequency)
Construct ==
    /\ pc = "idle"
    /\ \E sf \in SamplingFrequencies : analyzer' = NewAnalyzer(sf)
    /\ UNCHANGED <<pc, args, ret, input_now>>
    /\ UNCHANGED dashboard

\* analyzer.zero_phase_filter(data, low_freq, high_freq, order)
ZeroPhaseFilter ==
    /\ pc = "idle"
    /\ \E data \in SeriesPool, low_freq \in FreqInputs, high_freq \in FreqInputs,
          order \in Orders, lib \in LibOutcomes :
          /\ args' = [op |-> "zero_phase_filter", data |-> data,
                      low_freq |-> low_freq, high_freq |-> high_freq,
                      order |-> order, lib |-> lib]
          /\ ret' = zero_phase_filter(data, low_freq, high_freq, order, lib)
          /\ input_now' = data
    /\ pc' = "zero_phase_filter"
    /\ UNCHANGED analyzer
    /\ UNCHANGED dashboard

\* analyzer.decompose_frequency_bands(returns)
Decompose ==
    /\ pc = "idle"
    /\ \E data \in SeriesPool, libs \in BandLibs :
          /\ args' = [op |-> "decompose_frequency_bands", data |-> data,
                      libs |-> libs]
          /\ ret' = decompose_frequency_bands(analyzer, data, libs)
          /\ input_now' = data
    /\ pc' = "decompose_frequency_bands"
    /\ UNCHANGED analyzer
    /\ UNCHANGED dashboard

\* analyzer.calculate_volatility_spectral(returns, annualize)
Volatility ==
    /\ pc = "idle"
    /\ \E data \in SeriesPool, annualize \in BOOLEAN, spectrum \in Spectra :
          /\ args' = [op |-> "calculate_volatility_spectral", data |-> data,
                      annualize |-> annualize, spectrum |-> spectrum]
          /\ ret' = calculate_volatility_spectral(analyzer, data, annualize,
                                                  spectrum)
          /\ input_now' = data
    /\ pc' = "calculate_volatility_spectral"
    /\ UNCHANGED analyzer
    /\ UNCHANGED dashboard

\* analyzer.calculate_correlation_spectral(returns1, returns2)
Correlation ==
    /\ pc = "idle"
    /\ \E data1 \in PairPool, data2 \in PairPool, libs \in BandLibs :
          /\ Len(data1) = Len(data2)
          /\ args' = [op |-> "calculate_correlation_spectral", data1 |-> data1,
                      data2 |-> data2, libs |-> libs]
          /\ ret' = calculate_correlation_spectral(analyzer, data1, data2, libs)
          /\ input_now' = data1
    /\ pc' = "calculate_correlation_spectral"
    /\ UNCHANGED analyzer
    /\ UNCHANGED dashboard

\* The caller stores a value into the array zero_phase_filter returned.  When
\* that array is the argument itself, the argument changes with it.
WriteOutput ==
    /\ pc = "zero_phase_filter"
    /\ Len(ret.out) > 0
    /\ \E v \in {MaxAmp + 1} :
          /\ ret' = [ret EXCEPT !.out[1] = v]
          /\ input_now' = IF ret.same_object
                          THEN [input_now EXCEPT ![1] = v]
                          ELSE input_now
    /\ pc' = "written"
    /\ UNCHANGED <<analyzer, args>>
    /\ UNCHANGED dashboard

\* the caller drops the result
Return ==
    /\ pc # "idle"
    /\ pc' = "idle"
    /\ args' = Idle
    /\ ret' = Idle
    /\ input_now' = << >>
    /\ UNCHANGED analyzer
    /\ UNCHANGED dashboard

Next ==
    \/ Construct
    \/ ZeroPhaseFilter
    \/ Decompose
    \/ Volatility
    \/ Correlation
    \/ WriteOutput
    \/ Return

Spec == Init /\ [][Next]_vars

----------------------------------------------------------------------------
(* The caller of the reports: tables of a few assets. *)

\* the most assets in a table given to generate_summary_report
MaxAssets == 3

\* the most assets in a table given to generate_stl_summary
MaxStlAssets == 2

\* the longest period a caller names
MaxPeriod == 3

\* columns: a constant one and three that vary
TableMotifs == { <<2>>, <<0, 1>>, <<0, MaxAmp>>, <<MaxAmp, 0>> }

\* rows: too few for any filter, enough for every filter
TableLens == {2, 22}

Tables ==
    UNION { [1..n -> { Repeat(m, len) : m \in TableMotifs }] :
                n \in 1..MaxAssets, len \in TableLens }

\* one outcome of the library for every band's filter: every filter works,
\* every filter fails
SummaryLibs == { [nm \in BandNames |-> lib] : lib \in {"pass", "error"} }

\* the shapes of the periodograms: power everywhere, power at the low end
SummarySpectra == {"flat", "low"}

StlMotifs == { <<2>>, <<0, MaxAmp>>, <<0, MaxAmp, 2>> }

\* rows: fewer than any period above 2, more than MaxPeriod
StlLens == {2, 5}

StlPool == { Repeat(m, len) : m \in StlMotifs, len \in StlLens }

\* tables: a constant column and one that varies, of five rows
StlTableMotifs == { <<2>>, <<0, MaxAmp, 2>> }

StlTableLens == {5}

StlTables ==
    UNION { [1..n -> { Repeat(m, len) : m \in StlTableMotifs }] :
                n \in 1..MaxStlAssets, len \in StlTableLens }

\* the period a caller passes: left out, 1..MaxPeriod, or a negative one
Periods == {None} \cup { Some(p) : p \in {0 - 1} \cup (1..MaxPeriod) }

SummaryReport ==
    /\ pc = "idle"
    /\ \E returns \in Tables, spectrum \in SummarySpectra, libs \in SummaryLibs :
          /\ args' = [op |-> "generate_summary_report", returns |-> returns,
                      spectrum |-> spectrum, libs |-> libs]
          /\ ret' = generate_summary_report(analyzer, returns, spectrum, libs)
          /\ input_now' = returns
    /\ pc' = "generate_summary_report"
    /\ UNCHANGED analyzer
    /\ UNCHANGED dashboard

StlDecomposition ==
    /\ pc = "idle"
    /\ \E returns \in StlPool, period \in Periods, fit \in StlFits :
          /\ args' = [op |-> "stl_decomposition", returns |-> returns,
                      period |-> period, fit |-> fit]
          /\ ret' = stl_decomposition(analyzer, returns, period, fit)
          /\ input_now' = returns
    /\ pc' = "stl_decomposition"
    /\ UNCHANGED analyzer
    /\ UNCHANGED dashboard

StlSummary ==
    /\ pc = "idle"
    /\ \E returns \in StlTables, period \in Periods :
       \E fits \in [1..Len(returns) -> StlFits] :
          /\ args' = [op |-> "generate_stl_summary", returns |-> returns,
                      period |-> period, fits |-> fits]
          /\ ret' = generate_stl_summary(analyzer, returns, period, fits)
          /\ input_now' = returns
    /\ pc' = "generate_stl_summary"
    /\ UNCHANGED analyzer
    /\ UNCHANGED dashboard

\* analyzer.calculate_expected_return(returns, annualize)
ExpectedReturn ==
    /\ pc = "idle"
    /\ \E data \in StlPool, annualize \in BOOLEAN :
          /\ args' = [op |-> "calculate_expected_return", data |-> data,
                      annualize |-> annualize]
          /\ ret' = calculate_expected_return(analyzer, data, annualize)
          /\ input_now' = data
    /\ pc' = "calculate_expected_return"
    /\ UNCHANGED analyzer
    /\ UNCHANGED dashboard

\* the longest window and the longest step a caller names
MaxWindow == 3

MaxStep == 2

\* rows: as many as the longest window, twice as many
RollLens == {3, 6}

RollTables ==
    UNION { [1..n -> { Repeat(m, len) : m \in StlMotifs }] :
                n \in 1..MaxStlAssets, len \in RollLens }

\* analyzer.rolling_analysis(returns, window, step)
RollingAnalysis ==
    /\ pc = "idle"
    /\ \E returns \in RollTables, window \in 1..MaxWindow, step \in 1..MaxStep,
          spectrum \in SummarySpectra :
          /\ args' = [op |-> "rolling_analysis", returns |-> returns,
                      window |-> window, step |-> step, spectrum |-> spectrum]
          /\ ret' = rolling_analysis(analyzer, returns, window, step, spectrum)
          /\ input_now' = returns
    /\ pc' = "rolling_analysis"
    /\ UNCHANGED analyzer
    /\ UNCHANGED dashboard

NextReports ==
    \/ Construct
    \/ ExpectedReturn
    \/ RollingAnalysis
    \/ SummaryReport
    \/ StlDecomposition
    \/ StlSummary
    \/ Return

SpecReports == Init /\ [][NextReports]_vars

----------------------------------------------------------------------------
(* The user of the dashboard: every interaction is one run of the script. *)

\* the outcomes of an analysis run: no exception, or one in a step
Failures == {"none"} \cup { AnalysisSteps[k] : k \in 1..Len(AnalysisSteps) }

\* the run that follows an interaction
Run(file, analyze_button, fails_at, choice) ==
    /\ uploaded_file' = file
    /\ \E out \in {Script(session_state, file, analyze_button, fails_at, choice)} :
          /\ session_state' = out.session_state
          /\ page' = out.page
    /\ UNCHANGED library

\* a file is put into the uploader
Upload ==
    \E file \in Files :
        /\ uploaded_file # Some(file)
        /\ Run(Some(file), FALSE, "none", None)

\* the file is taken out of the uploader
RemoveFile ==
    /\ ~uploaded_file.isNone
    /\ Run(None, FALSE, "none", None)

\* the analyze button, which the page shows below the preview
ClickAnalyze ==
    /\ ~page.df.isNone
    /\ \E fails_at \in Failures : Run(uploaded_file, TRUE, fails_at, None)

\* the sample-data button: the table is stored and st.rerun() runs the
\* script again
ClickSample ==
    /\ page.prompt
    /\ uploaded_file' = uploaded_file
    /\ \E out \in {Script([session_state EXCEPT !.returns_df = Some(sample_df)],
                           uploaded_file, FALSE, "none", None)} :
          /\ session_state' = out.session_state
          /\ page' = out.page
    /\ UNCHANGED library

\* an asset is picked in the selectbox of the STL tab
SelectAsset ==
    /\ page.stl # "none"
    /\ \E asset \in Columns(page.df.v) : Run(uploaded_file, FALSE, "none", Some(asset))

\* any other interaction (a tab, an expander, a download)
Rerun ==
    \E file \in {uploaded_file} : Run(file, FALSE, "none", None)

NextDashboard ==
    \/ Upload
    \/ RemoveFile
    \/ ClickAnalyze
    \/ ClickSample
    \/ SelectAsset
    \/ Rerun

SpecDashboard == Init /\ [][NextDashboard]_vars

----------------------------------------------------------------------------
(* zero_phase_filter *)

InFilter == pc = "zero_phase_filter"

BothAbsent == args.low_freq.isNone /\ args.high_freq.isNone

BothGiven == ~args.low_freq.isNone /\ ~args.high_freq.isNone

\* the cutoffs of the call, normalized and clamped
ArgLowNormalized == Clamp(Normalize(args.low_freq.v))

ArgHighNormalized == Clamp(Normalize(args.high_freq.v))

ArgDegenerate == BothGiven /\ ArgLowNormalized >= ArgHighNormalized

\* the number of coefficients of the design the call asks for
ArgNcoef == IF BothGiven THEN 2 * args.order + 1 ELSE args.order + 1

\* the library raises in this call: the series is no longer than the padding
\* of the forward-backward application, or the application itself fails
LibraryRaises ==
    /\ ~BothAbsent
    /\ ~ArgDegenerate
    /\ (Len(args.data) <= 3 * ArgNcoef \/ args.lib = "error")

\* C1: with at least one bound given, a failure of the Butterworth design or
\* of the forward-backward application never leaves zero_phase_filter: the
\* call prints the diagnostic and returns an all-zero series of the length of
\* the input.
C1_FailureGivesZeros ==
    (InFilter /\ ~BothAbsent) =>
        /\ ~ret.raised
        /\ Len(ret.out) = Len(args.data)
        /\ LibraryRaises =>
              /\ ret.warned
              /\ ret.out = zeros_like(args.data)

C1_Witness ==
    /\ InFilter
    /\ LibraryRaises
    /\ args.lib = "error"
    /\ Len(args.data) > 3 * ArgNcoef
    /\ args.data # zeros_like(args.data)
    /\ ret.out = zeros_like(args.data)

\* C2: with both bounds given and low_normalized >= high_normalized after
\* the clamp, the output is all zeros of the length of the input, no filter
\* is designed or applied, and no error is raised or reported.
C2_DegenerateBandGivesZeros ==
    (InFilter /\ ArgDegenerate) =>
        /\ ret.out = zeros_like(args.data)
        /\ ret.btype = "none"
        /\ ~ret.applied
        /\ ~ret.raised
        /\ ~ret.warned

\* both bounds clamped onto the lower limit, low_freq < high_freq
C2_Witness ==
    /\ InFilter
    /\ BothGiven
    /\ args.low_freq.v < args.high_freq.v
    /\ ArgLowNormalized = ArgHighNormalized
    /\ Len(args.data) > 3 * ArgNcoef
    /\ args.data # zeros_like(args.data)
    /\ args.lib = "pass"
    /\ ret.out = zeros_like(args.data)

\* C3: the design is a low-pass at high_freq exactly when low_freq is absent
\* and high_freq given, a high-pass at low_freq exactly when high_freq is
\* absent and low_freq given, and a band-pass between the two exactly when
\* both are given and the band is not degenerate; nothing else is designed.
C3_FilterTypeFromBounds ==
    InFilter =>
        /\ ret.btype \in {"none", "low", "high", "band"}
        /\ (ret.btype = "low") <=>
              (args.low_freq.isNone /\ ~args.high_freq.isNone)
        /\ (ret.btype = "high") <=>
              (~args.low_freq.isNone /\ args.high_freq.isNone)
        /\ (ret.btype = "band") <=> (BothGiven /\ ~ArgDegenerate)
        /\ (ret.btype = "low") => ret.Wn = << ArgHighNormalized >>
        /\ (ret.btype = "high") => ret.Wn = << ArgLowNormalized >>
        /\ (ret.btype = "band") =>
              ret.Wn = << ArgLowNormalized, ArgHighNormalized >>
        /\ (ret.btype = "none") => ret.Wn = << >>

C3_Witness ==
    /\ InFilter
    /\ args.low_freq.isNone
    /\ ~args.high_freq.isNone
    /\ ret.btype = "low"
    /\ ret.applied

\* C4: with both bounds absent the call returns the values of the input in
\* the same order and length, designs and applies nothing, and returns them
\* in an array of its own: a later store into the returned array leaves the
\* input as it was.
C4_BothAbsentGivesCopy ==
    /\ (InFilter /\ BothAbsent) =>
          /\ ret.out = args.data
          /\ ret.btype = "none"
          /\ ~ret.applied
          /\ ~ret.raised
    /\ (pc = "written" /\ BothAbsent) => input_now = args.data

C4_Witness ==
    /\ pc = "written"
    /\ BothAbsent
    /\ ret.out # args.data
    /\ input_now = args.data

----------------------------------------------------------------------------
(* decompose_frequency_bands and the band tables *)

InDecompose == pc = "decompose_frequency_bands"

\* C5: decompose_frequency_bands returns one filtered series per band of the
\* active band set and nothing else, from one filter call per band: long_term
\* with the lower bound absent and the band's upper bound, every other band
\* with both of its bounds.
C5_DecomposeOnePerBand ==
    (InDecompose /\ analyzer.has_freq_bands) =>
        LET bands == analyzer.freq_bands IN
        /\ ~ret.raised
        /\ DOMAIN ret.decomposed = {bands[i].name : i \in 1..Len(bands)}
        /\ Len(ret.calls) = Len(bands)
        /\ \A i \in 1..Len(bands) :
              LET c == ret.calls[i] IN
              /\ c.band = bands[i].name
              /\ c.high_freq = Some(bands[i].high)
              /\ (c.band = "long_term") => c.low_freq = None
              /\ (c.band # "long_term") => c.low_freq = Some(bands[i].low)
              /\ ret.decomposed[c.band] = c.filtered
              /\ Len(c.filtered) = Len(args.data)

\* long_term came through its low-pass and short_term through its band-pass
C5_Witness ==
    /\ InDecompose
    /\ analyzer.sampling_freq = "M"
    /\ ~ret.raised
    /\ args.libs["long_term"] = "pass"
    /\ args.libs["short_term"] = "pass"
    /\ args.libs["medium_term"] = "error"
    /\ Len(args.data) > 3 * (2 * DefaultOrder + 1)
    /\ args.data # zeros_like(args.data)
    /\ ret.decomposed["long_term"] = args.data
    /\ ret.decomposed["short_term"] = args.data
    /\ ret.decomposed["medium_term"] = zeros_like(args.data)

\* C6: in modes 'D' and 'M' the four bands partition [0, 0.5]: long_term
\* starts at 0, short_term ends at 0.5, each band starts where the next lower
\* band ends, and the table lists them from the highest band to the lowest.
C6_BandsPartition ==
    analyzer.sampling_freq \in {"D", "M"} =>
        LET b == analyzer.freq_bands IN
        /\ analyzer.has_freq_bands
        /\ [i \in 1..Len(b) |-> b[i].name] =
              << "short_term", "medium_term", "business_cycle", "long_term" >>
        /\ b[Len(b)].low = 0
        /\ b[1].high = nyquist
        /\ \A i \in 1..Len(b) : b[i].low < b[i].high
        /\ \A i \in 1..(Len(b) - 1) : b[i].low = b[i + 1].high

C6_Witness ==
    /\ analyzer.sampling_freq = "M"
    /\ analyzer.freq_bands[2].low = 250
    /\ pc = "idle"

----------------------------------------------------------------------------
(* calculate_volatility_spectral *)

InVolatility == pc = "calculate_volatility_spectral"

ActiveBandNames ==
    {analyzer.freq_bands[i].name : i \in 1..Len(analyzer.freq_bands)}

\* bin k of the call's periodogram lies at the frequency f (in 1/Unit)
BinAt(k, f) == k * Unit = f * Len(args.data)

\* C7: the volatility report has one entry per band of the active set plus
\* 'total', and every band volatility is a finite number >= 0: the root of a
\* number that is not negative.
C7_BandVolatilitiesNonNegative ==
    (InVolatility /\ analyzer.has_freq_bands) =>
        /\ ~ret.raised
        /\ DOMAIN ret.volatilities = ActiveBandNames \cup {"total"}
        /\ \A nm \in ActiveBandNames :
              LET v == ret.volatilities[nm] IN
              /\ ~v.nan
              /\ v.sq_num >= 0
              /\ v.sq_den > 0

\* an annualized daily report with power in one band and none in another
C7_Witness ==
    /\ InVolatility
    /\ analyzer.sampling_freq = "D"
    /\ args.annualize
    /\ ret.volatilities["short_term"].sq_num > 0
    /\ ret.volatilities["medium_term"].sq_num = 0
    /\ ret.volatilities["total"].sq_num > 0

\* C8 as stated: every band integrates the bins of its half-open interval
\* [low, high), so no bin is counted in two bands.
C8_HalfOpenBands ==
    (InVolatility /\ analyzer.has_freq_bands) =>
        \A i, j \in 1..Len(analyzer.freq_bands) :
            i # j =>
                ret.masks[analyzer.freq_bands[i].name]
                    \cap ret.masks[analyzer.freq_bands[j].name] = {}

\* C8 as amended: every band integrates the bins of its closed interval
\* [low, high]; a bin is counted in two bands exactly when its frequency is
\* the boundary the two bands share, and no bin is counted in three.
C8_ClosedBands ==
    (InVolatility /\ analyzer.has_freq_bands) =>
        LET b == analyzer.freq_bands
            n == Len(args.data)
        IN
        /\ \A i \in 1..Len(b) :
              ret.masks[b[i].name] =
                 {k \in 0..(n \div 2) :
                     k * Unit >= b[i].low * n /\ k * Unit <= b[i].high * n}
        /\ \A i, j \in 1..Len(b) : \A k \in 0..(n \div 2) :
              i < j =>
                 ((k \in ret.masks[b[i].name] /\ k \in ret.masks[b[j].name])
                    <=> (j = i + 1 /\ BinAt(k, b[i].low)))

\* 25 daily samples: bin 1 lies at 0.04, the boundary of short_term and
\* medium_term, and is integrated by both
C8_Witness ==
    /\ InVolatility
    /\ analyzer.sampling_freq = "D"
    /\ Len(args.data) = 25
    /\ 1 \in ret.masks["short_term"]
    /\ 1 \in ret.masks["medium_term"]
    /\ BinAt(1, 120)

----------------------------------------------------------------------------
(* calculate_correlation_spectral *)

InCorrelation == pc = "calculate_correlation_spectral"

\* np.std(x) < 1e-10
StdBelowEps(x) ==
    Len(x) > 0 /\ ~HasNaN(x) /\ VarNum(x) < Eps * Eps * Len(x) * Len(x)

\* np.std(x) = 1e-10
StdIsEps(x) ==
    Len(x) > 0 /\ ~HasNaN(x) /\ VarNum(x) = Eps * Eps * Len(x) * Len(x)

\* the Pearson correlation of the two filtered signals, NaN replaced by 0.0
PearsonOrZero(x, y) ==
    IF corrcoef(x, y).nan THEN CorrZero ELSE corrcoef(x, y)

\* C9 as stated: a band reports exactly 0.0 when either filtered signal's
\* standard deviation is below 1e-10, otherwise the Pearson correlation of
\* the two filtered signals with NaN replaced by 0.0; it is never NaN.
C9_ZeroBelowEps ==
    (InCorrelation /\ ~ret.raised) =>
        \A nm \in ActiveBandNames :
            LET f1 == ret.filtered1[nm]
                f2 == ret.filtered2[nm]
                c  == ret.correlations[nm]
            IN  /\ ~c.nan
                /\ c = IF StdBelowEps(f1) \/ StdBelowEps(f2)
                       THEN CorrZero
                       ELSE PearsonOrZero(f1, f2)

\* C9 as amended: a band reports exactly 0.0 when either filtered signal's
\* standard deviation is at or below 1e-10, otherwise the Pearson correlation
\* of the two filtered signals with NaN replaced by 0.0; it is never NaN.
C9_ZeroAtOrBelowEps ==
    (InCorrelation /\ ~ret.raised) =>
        \A nm \in ActiveBandNames :
            LET f1 == ret.filtered1[nm]
                f2 == ret.filtered2[nm]
                c  == ret.correlations[nm]
            IN  /\ ~c.nan
                /\ c = IF \/ StdBelowEps(f1) \/ StdIsEps(f1)
                          \/ StdBelowEps(f2) \/ StdIsEps(f2)
                       THEN CorrZero
                       ELSE PearsonOrZero(f1, f2)

\* one filtered signal has a standard deviation of exactly 1e-10, the other a
\* larger one, the two are correlated, and the band reports 0.0
C9_Witness ==
    /\ InCorrelation
    /\ ~ret.raised
    /\ StdIsEps(ret.filtered1["short_term"])
    /\ StdAboveEps(ret.filtered2["short_term"])
    /\ corrcoef(ret.filtered1["short_term"], ret.filtered2["short_term"]).num # 0
    /\ ret.correlations["short_term"] = CorrZero
    /\ ret.correlations["total"].num # 0

\* a correlation coefficient: a number in [-1, 1]
InUnitInterval(c) == ~c.nan /\ c.num * c.num <= c.dx * c.dy

\* C10: every value of the correlation report, each band's and 'total', is a
\* correlation coefficient in [-1, 1]; NaN is never returned.
C10_ReportInUnitInterval ==
    (InCorrelation /\ ~ret.raised) =>
        \A key \in DOMAIN ret.correlations :
            InUnitInterval(ret.correlations[key])

\* the two arguments are one series
SelfCorrelation == InCorrelation /\ ~ret.raised /\ args.data1 = args.data2

\* the float 1.0 as a correlation coefficient
IsOne(c) == ~c.nan /\ c.num > 0 /\ c.num * c.num = c.dx * c.dy

\* np.var(x) > 0
HasVariance(x) == Len(x) > 0 /\ ~HasNaN(x) /\ VarNum(x) > 0

\* C11 as stated: the correlation of a series with itself is 1.0 in every
\* band whose filtered signal has a variance above zero, however small, and
\* 1.0 in 'total' for a series that has a variance.
C11_SelfCorrelationAnyVariance ==
    SelfCorrelation =>
        /\ \A nm \in ActiveBandNames :
              HasVariance(ret.filtered1[nm]) => IsOne(ret.correlations[nm])
        /\ HasVariance(args.data1) => IsOne(ret.correlations["total"])

\* C11 as amended: the correlation of a series with itself is 1.0 in every
\* band whose filtered signal has a standard deviation above 1e-10, and 1.0
\* in 'total' for a series that has a variance; a band whose filtered signal
\* has a standard deviation at or below 1e-10 reports 0.0.
C11_SelfCorrelationAboveEps ==
    SelfCorrelation =>
        /\ \A nm \in ActiveBandNames :
              /\ StdAboveEps(ret.filtered1[nm]) => IsOne(ret.correlations[nm])
              /\ ~StdAboveEps(ret.filtered1[nm]) =>
                     ret.correlations[nm] = CorrZero
        /\ HasVariance(args.data1) => IsOne(ret.correlations["total"])

\* a series is correlated with itself: one band's filtered signal has a
\* standard deviation above 1e-10 and reports 1.0, another band's filtered
\* signal is zeroed and reports 0.0, and 'total' is 1.0
C11_Witness ==
    /\ SelfCorrelation
    /\ StdAboveEps(ret.filtered1["short_term"])
    /\ IsOne(ret.correlations["short_term"])
    /\ ~HasVariance(ret.filtered1["long_term"])
    /\ ret.correlations["long_term"] = CorrZero
    /\ IsOne(ret.correlations["total"])

----------------------------------------------------------------------------
(* generate_summary_report *)

InSummary == pc = "generate_summary_report" /\ ~ret.raised

\* float equality: a NaN equals nothing, itself included
FloatEq(c1, c2) == ~c1.nan /\ ~c2.nan /\ c1 = c2

\* C12: the correlation matrix of generate_summary_report is square and
\* indexed by the assets on both axes, every diagonal entry is exactly 1.0,
\* entry (a, b) equals entry (b, a) for every pair of assets, and no cell is
\* left unset (an unset cell of the frame holds NaN).
C12_CorrMatrixSymmetricUnitDiagonal ==
    InSummary =>
        LET assets == 1..Len(args.returns) IN
        /\ DOMAIN ret.corr_matrix = assets \X assets
        /\ \A a \in assets : ret.corr_matrix[<<a, a>>] = CorrOne
        /\ \A a, b \in assets :
              FloatEq(ret.corr_matrix[<<a, b>>], ret.corr_matrix[<<b, a>>])
        /\ \A a, b \in assets : ~ret.corr_matrix[<<a, b>>].nan

\* C13: each row's Sharpe_Ratio is Expected_Return / Volatility, the two
\* annualized 'total' values of the asset, when Volatility is not zero, and 0
\* when Volatility is 0; no division by zero occurs.
C13_SharpeRatio ==
    InSummary =>
        \A asset \in 1..Len(args.returns) :
            LET row    == ret.summary_df[asset]
                data   == args.returns[asset]
                factor == IF analyzer.sampling_freq = "D" THEN 252 ELSE 12
            IN  /\ row.Expected_Return =
                      [nan |-> FALSE, num |-> SumSeq(data) * factor, den |-> Len(data)]
                /\ row.Volatility =
                      [nan |-> FALSE, sq_num |-> VarNum(data) * factor,
                       sq_den |-> Len(data) * Len(data)]
                /\ ~row.Sharpe_Ratio.zero_division
                /\ row.Volatility.sq_num # 0 =>
                      /\ ~row.Sharpe_Ratio.int_zero
                      /\ row.Sharpe_Ratio.dividend = row.Expected_Return
                      /\ row.Sharpe_Ratio.divisor = row.Volatility
                /\ row.Volatility.sq_num = 0 => row.Sharpe_Ratio.int_zero

\* a table with an asset of zero volatility, whose Sharpe_Ratio is 0, and an
\* asset of nonzero volatility and nonzero return, whose Sharpe_Ratio is the
\* quotient
C13_Witness ==
    /\ InSummary
    /\ \E a, b \in 1..Len(args.returns) :
          /\ ret.summary_df[a].Volatility.sq_num = 0
          /\ ret.summary_df[a].Expected_Return.num # 0
          /\ ret.summary_df[a].Sharpe_Ratio.int_zero
          /\ ret.summary_df[b].Volatility.sq_num > 0
          /\ ret.summary_df[b].Expected_Return.num # 0
          /\ ~ret.summary_df[b].Sharpe_Ratio.int_zero

----------------------------------------------------------------------------
(* the batch reports *)

InStlSummary == pc = "generate_stl_summary"

\* a row without the name of its asset
SummaryValues(row) ==
    << row.Expected_Return, row.Volatility, row.Sharpe_Ratio, row.Short_Term_Vol,
       row.Medium_Term_Vol, row.Business_Cycle_Vol, row.Long_Term_Vol >>

StlValues(row) ==
    << row.Trend_Vol, row.Seasonal_Vol, row.Residual_Vol, row.Seasonal_Strength >>

\* C14: on an analyzer with a band set, generate_summary_report returns one
\* row per asset in input order and an n-by-n matrix whatever the filters
\* do, and generate_stl_summary with a period of at least 1 returns one row
\* per asset in input order whatever the STL fits do; an asset whose fit fails gets the flat fallback
\* (all-zero seasonal component, seasonal volatility and strength 0), and
\* every asset's row is the row it gets in a table of its own.
C14_BatchKeepsEveryRow ==
    /\ (pc = "generate_summary_report" /\ analyzer.has_freq_bands) =>
          LET assets == 1..Len(args.returns) IN
          /\ ~ret.raised
          /\ DOMAIN ret.summary_df = assets
          /\ DOMAIN ret.corr_matrix = assets \X assets
          /\ \A asset \in assets :
                /\ ret.summary_df[asset].Asset = asset
                /\ SummaryValues(ret.summary_df[asset]) =
                      SummaryValues(generate_summary_report(analyzer,
                          << args.returns[asset] >>, args.spectrum,
                          args.libs).summary_df[1])
    /\ (InStlSummary /\ ret.period >= 1) =>
          LET assets == 1..Len(args.returns) IN
          /\ ~ret.raised
          /\ DOMAIN ret.stl_summary = assets
          /\ \A asset \in assets :
                /\ ret.stl_summary[asset].Asset = asset
                /\ StlValues(ret.stl_summary[asset]) =
                      StlValues(generate_stl_summary(analyzer,
                          << args.returns[asset] >>, args.period,
                          << args.fits[asset] >>).stl_summary[1])
                /\ StlRaises(ret.period, args.fits[asset]) =>
                      /\ ret.stl_results[asset].fell_back
                      /\ \A i \in 1..Len(args.returns[asset]) :
                            ret.stl_results[asset].seasonal.num[i] = 0
                      /\ ret.stl_summary[asset].Seasonal_Vol.sq_num = 0
                      /\ ret.stl_summary[asset].Seasonal_Strength.kind = "zero"

\* a table of two assets: the fit of the first fails, the fit of the second
\* succeeds and finds a seasonal component; both rows are there
C14_Witness ==
    /\ InStlSummary
    /\ Len(args.returns) = 2
    /\ args.fits[1] = "error"
    /\ args.fits[2] = "seasonal"
    /\ ~ret.raised
    /\ ret.stl_results[1].fell_back
    /\ ~ret.stl_results[2].fell_back
    /\ Len(ret.stl_summary) = 2
    /\ ret.stl_summary[2].Seasonal_Vol.sq_num > 0

----------------------------------------------------------------------------
(* stl_decomposition *)

InStl == pc = "stl_decomposition"

\* the four entries, each a series over the index of the input
CompleteResult ==
    /\ ~ret.raised
    /\ ret.original.num = args.returns
    /\ Len(ret.trend.num) = Len(args.returns)
    /\ Len(ret.seasonal.num) = Len(args.returns)
    /\ Len(ret.residual.num) = Len(args.returns)
    /\ ~HasNaN(ret.trend.num) /\ ~HasNaN(ret.residual.num)

FellBack == InStl /\ ~ret.raised /\ ret.fell_back

\* the centered moving average over period samples is defined at position i
AverageDefined(i) ==
    /\ i - (ret.period - 1 - ((ret.period - 1) \div 2)) >= 1
    /\ i + ((ret.period - 1) \div 2) <= Len(args.returns)

\* C16: when the STL fit fails, trend is the centered moving average over
\* period samples with every position where it is undefined set to 0,
\* seasonal is all zero, and residual is original - trend at every index,
\* the positions where trend was filled with 0 included.
C16_FallbackComponents ==
    FellBack =>
        \A i \in 1..Len(args.returns) :
            /\ ret.trend.num[i] =
                  IF AverageDefined(i) THEN RollingMean(args.returns, ret.period)[i]
                  ELSE 0
            /\ ret.trend.den = ret.period
            /\ ret.seasonal.num[i] = 0
            /\ ret.residual.num[i] * ret.trend.den =
                  (args.returns[i] * ret.trend.den - ret.trend.num[i]) * ret.residual.den

\* C17: every result of stl_decomposition, of the fit and of the fallback,
\* satisfies original[i] = trend[i] + seasonal[i] + residual[i] at every
\* index i.
C17_ComponentsSumToOriginal ==
    (InStl /\ ~ret.raised) =>
        \A i \in 1..Len(args.returns) :
            ret.original.num[i] * ret.trend.den * ret.seasonal.den * ret.residual.den
              = ret.trend.num[i] * ret.seasonal.den * ret.residual.den
                + ret.seasonal.num[i] * ret.trend.den * ret.residual.den
                + ret.residual.num[i] * ret.trend.den * ret.seasonal.den

\* C18: when the caller names no period, the decomposition runs with period
\* 21 on a 'D' analyzer, 12 on an 'M' analyzer and 12 on any other, in a
\* direct call of stl_decomposition as in generate_stl_summary.
C18_DefaultPeriodByMode ==
    ((InStl \/ InStlSummary) /\ args.period = None) =>
        ret.period = IF analyzer.sampling_freq = "D" THEN 21 ELSE 12

----------------------------------------------------------------------------
(* seasonal strength *)

StlRows == IF InStlSummary /\ ~ret.raised THEN 1..Len(args.returns) ELSE {}

\* raw is the quotient seasonal_vol / total_vol (the squares compared)
IsQuotient(raw, seasonal_vol, total_vol) ==
    /\ ~raw.nan
    /\ raw.sq_num * (seasonal_vol.sq_den * total_vol.sq_num)
          = raw.sq_den * (seasonal_vol.sq_num * total_vol.sq_den)

\* raw < 0.35, raw = 1, raw > 1 by the squares: 0.35 * 0.35 = 49 / 400
RawBelowThreshold(raw) == raw.sq_num * 400 < 49 * raw.sq_den

RawIsOne(raw) == raw.sq_num = raw.sq_den

RawAboveOne(raw) == raw.sq_num > raw.sq_den

RawLess(raw1, raw2) == raw1.sq_num * raw2.sq_den < raw2.sq_num * raw1.sq_den

\* the value of a strength as the square of the raw strength that gives it
\* without clipping: 0 is given by 0.35, 1 by 1
StrengthAsRaw(strength) ==
    IF strength.kind = "zero" THEN [sq_num |-> 49, sq_den |-> 400]
    ELSE IF strength.kind = "one" THEN [sq_num |-> 1, sq_den |-> 1]
    ELSE [sq_num |-> strength.raw.sq_num, sq_den |-> strength.raw.sq_den]

StrengthIsZero(strength) ==
    StrengthAsRaw(strength).sq_num * 400 = 49 * StrengthAsRaw(strength).sq_den

StrengthIsOne(strength) == RawIsOne(StrengthAsRaw(strength))

StrengthLess(s1, s2) == RawLess(StrengthAsRaw(s1), StrengthAsRaw(s2))

\* C19: each row's Seasonal_Strength is computed from raw_strength =
\* seasonal_vol / total_vol (0 when total_vol is 0) as 0 when raw_strength <
\* 0.35 and min((raw_strength - 0.35) / (1 - 0.35), 1) otherwise, and lies in
\* [0, 1].
C19_SeasonalStrengthInUnitInterval ==
    \A asset \in StlRows :
        LET row      == ret.stl_summary[asset]
            raw      == ret.raw_strength[asset]
            strength == row.Seasonal_Strength
        IN  /\ IF ret.total_vol[asset].sq_num = 0
               THEN raw.sq_num = 0 /\ ~raw.nan
               ELSE IsQuotient(raw, row.Seasonal_Vol, ret.total_vol[asset])
            /\ strength.raw = raw
            /\ strength.kind =
                  IF RawBelowThreshold(raw) THEN "zero"
                  ELSE IF RawAboveOne(raw) THEN "one"
                  ELSE "scaled"
            /\ ~StrengthLess(strength, [kind |-> "zero", raw |-> raw])
            /\ ~StrengthLess([kind |-> "one", raw |-> raw], strength)

\* one asset has no volatility at all and strength 0, another has a raw
\* strength between 0.35 and 1 and a strength strictly between 0 and 1
C19_Witness ==
    \E a, b \in StlRows :
        /\ ret.total_vol[a].sq_num = 0
        /\ ret.stl_summary[a].Seasonal_Strength.kind = "zero"
        /\ ~RawBelowThreshold(ret.raw_strength[b])
        /\ ret.stl_summary[b].Seasonal_Strength.kind = "scaled"
        /\ ~StrengthIsZero(ret.stl_summary[b].Seasonal_Strength)
        /\ ~StrengthIsOne(ret.stl_summary[b].Seasonal_Strength)

\* C20 as stated: the strength is 0 for every raw strength below 0.35, grows
\* with the raw strength above the threshold, and is 1.0 exactly when the raw
\* strength is 1.0.
C20_OneExactlyAtOne ==
    \A a, b \in StlRows :
        LET raw_a == ret.raw_strength[a]
            raw_b == ret.raw_strength[b]
            s_a   == ret.stl_summary[a].Seasonal_Strength
            s_b   == ret.stl_summary[b].Seasonal_Strength
        IN  /\ RawBelowThreshold(raw_a) => StrengthIsZero(s_a)
            /\ (~RawBelowThreshold(raw_a) /\ RawLess(raw_a, raw_b)) =>
                  StrengthLess(s_a, s_b)
            /\ StrengthIsOne(s_a) <=> RawIsOne(raw_a)

\* C20 as amended: the strength is 0 for every raw strength below 0.35,
\* never falls as the raw strength grows, grows strictly with it between
\* 0.35 and 1.0, and is 1.0 exactly when the raw strength is 1.0 or more.
C20_OneFromOneOn ==
    \A a, b \in StlRows :
        LET raw_a == ret.raw_strength[a]
            raw_b == ret.raw_strength[b]
            s_a   == ret.stl_summary[a].Seasonal_Strength
            s_b   == ret.stl_summary[b].Seasonal_Strength
        IN  /\ RawBelowThreshold(raw_a) => StrengthIsZero(s_a)
            /\ RawLess(raw_a, raw_b) => ~StrengthLess(s_b, s_a)
            /\ (~RawBelowThreshold(raw_a) /\ RawLess(raw_a, raw_b)
                   /\ ~RawAboveOne(raw_b)) => StrengthLess(s_a, s_b)
            /\ StrengthIsOne(s_a) <=> (RawIsOne(raw_a) \/ RawAboveOne(raw_a))

\* two assets, one with a raw strength of 1.0 and one with a raw strength
\* above 1.0: both have strength 1.0
C20_Witness ==
    \E a, b \in StlRows :
        /\ RawIsOne(ret.raw_strength[a])
        /\ RawAboveOne(ret.raw_strength[b])
        /\ StrengthIsOne(ret.stl_summary[a].Seasonal_Strength)
        /\ StrengthIsOne(ret.stl_summary[b].Seasonal_Strength)

----------------------------------------------------------------------------
(* calculate_expected_return *)

InExpectedReturn == pc = "calculate_expected_return"

\* C21: the report of calculate_expected_return has the single key 'total',
\* the arithmetic mean of the series times 252 when annualizing in 'D', times
\* 12 when annualizing in 'M', and unscaled otherwise.
C21_ExpectedReturnTotal ==
    InExpectedReturn =>
        /\ DOMAIN ret = {"total"}
        /\ ~ret.total.nan
        /\ ret.total.den = Len(args.data)
        /\ ret.total.num =
              SumSeq(args.data) *
                (IF args.annualize /\ analyzer.sampling_freq = "D" THEN 252
                 ELSE IF args.annualize /\ analyzer.sampling_freq = "M" THEN 12
                 ELSE 1)

\* a monthly analyzer, not annualizing, on a series with a nonzero mean
C21_Witness ==
    /\ InExpectedReturn
    /\ analyzer.sampling_freq = "M"
    /\ ~args.annualize
    /\ SumSeq(args.data) # 0
    /\ ret.total.num = SumSeq(args.data)

----------------------------------------------------------------------------
(* empty masks, documented modes, cutoffs *)

\* the float 0.0 as a volatility
IsZeroVol(vol) == ~vol.nan /\ vol.sq_num = 0

\* C22: a band with no periodogram bin in its range gets volatility exactly
\* 0.0, annualized or not, and every other band and 'total' are computed:
\* each band with bins from its integral, 'total' from the standard
\* deviation of the series.
C22_EmptyMaskGivesZero ==
    (InVolatility /\ ~ret.raised) =>
        LET pg       == periodogram(args.data, args.spectrum)
            factorSq == IF ~args.annualize THEN 1
                        ELSE IF analyzer.sampling_freq = "D" THEN 252 ELSE 12
        IN  /\ DOMAIN ret.volatilities = ActiveBandNames \cup {"total"}
            /\ \A nm \in ActiveBandNames :
                  IF ret.masks[nm] = {}
                  THEN IsZeroVol(ret.volatilities[nm])
                  ELSE ret.volatilities[nm] =
                         Sqrt(Abs(Trapz2n(ret.masks[nm], pg)) * factorSq, 2 * pg.n)
            /\ ret.volatilities["total"] = StdTimes(args.data, factorSq)

\* one band has no bin and reports 0.0 while another band and 'total' are
\* not zero
C22_Witness ==
    /\ InVolatility
    /\ ~ret.raised
    /\ args.annualize
    /\ \E empty, other \in ActiveBandNames :
          /\ ret.masks[empty] = {}
          /\ IsZeroVol(ret.volatilities[empty])
          /\ ret.masks[other] # {}
          /\ ret.volatilities[other].sq_num > 0
    /\ ret.volatilities["total"].sq_num > 0

\* C23: an analyzer constructed with 'D', 'W' or 'M' has its band set, and
\* decompose_frequency_bands, calculate_volatility_spectral and
\* calculate_correlation_spectral do not fail for lack of it.
C23_DocumentedModesHaveBands ==
    analyzer.sampling_freq \in {"D", "W", "M"} =>
        /\ analyzer.has_freq_bands
        /\ (InDecompose \/ InVolatility \/ InCorrelation) => ~ret.raised

\* C24: every cutoff handed to the Butterworth design is
\* min(max(f / 0.5, 0.001), 0.95) for the caller's frequency f, lies in
\* [0.001, 0.95], and is neither 0 nor 1.0.
C24_CutoffsClamped ==
    InFilter =>
        LET clamped(f) == IF 2 * f < 3 THEN 3 ELSE IF 2 * f > 2850 THEN 2850 ELSE 2 * f
        IN  /\ ret.btype = "low" => ret.Wn = << clamped(args.high_freq.v) >>
            /\ ret.btype = "high" => ret.Wn = << clamped(args.low_freq.v) >>
            /\ ret.btype = "band" =>
                  ret.Wn = << clamped(args.low_freq.v), clamped(args.high_freq.v) >>
            /\ \A i \in 1..Len(ret.Wn) :
                  /\ 3 <= ret.Wn[i] /\ ret.Wn[i] <= 2850
                  /\ ret.Wn[i] # 0 /\ ret.Wn[i] # Unit

\* a band-pass asked from 0 to Nyquist is designed from 0.001 to 0.95
C24_Witness ==
    /\ InFilter
    /\ args.low_freq = Some(0)
    /\ args.high_freq = Some(1500)
    /\ ret.btype = "band"
    /\ ret.Wn = << 3, 2850 >>

----------------------------------------------------------------------------
(* the calls of the correlation estimator *)

\* C25: for n assets generate_summary_report calls the correlation estimator
\* n(n-1)/2 times, once for each pair i < j and for no other pair, and writes
\* the 'total' of that call into the cell and into its mirror.
C25_OneCallPerUnorderedPair ==
    InSummary =>
        LET n     == Len(args.returns)
            calls == ret.calls
        IN  /\ 2 * Len(calls) = n * (n - 1)
            /\ \A k \in 1..Len(calls) :
                  /\ calls[k][1] \in 1..n /\ calls[k][2] \in 1..n
                  /\ calls[k][1] < calls[k][2]
                  /\ \A l \in 1..Len(calls) : calls[l] = calls[k] => l = k
            /\ \A i, j \in 1..n :
                  i < j =>
                    LET total == calculate_correlation_spectral(analyzer,
                                     args.returns[i], args.returns[j],
                                     args.libs).correlations["total"]
                    IN  /\ \E k \in 1..Len(calls) : calls[k] = <<i, j>>
                        /\ ret.corr_matrix[<<i, j>>] = total
                        /\ ret.corr_matrix[<<j, i>>] = total

\* three assets: three calls, for (1, 2), (1, 3) and (2, 3), and a
\* correlation that is not zero in a cell and its mirror
C25_Witness ==
    /\ InSummary
    /\ Len(args.returns) = 3
    /\ ret.calls = << <<1, 2>>, <<1, 3>>, <<2, 3>> >>
    /\ ~ret.corr_matrix[<<1, 3>>].nan
    /\ ret.corr_matrix[<<1, 3>>].num # 0
    /\ ret.corr_matrix[<<3, 1>>] = ret.corr_matrix[<<1, 3>>]

----------------------------------------------------------------------------
(* rolling_analysis *)

InRolling == pc = "rolling_analysis"

\* C27: rolling_analysis emits one row for each start in {0, step, ...} below
\* len(returns) - window, in that order, each computed from the rows
\* [start, start + window) and dated by the last of them; every window is
\* inside the data, a table of at most window rows yields no row, and no row
\* is dated by the last sample.
C27_RollingWindows ==
    (InRolling /\ ~ret.raised) =>
        LET n      == Len(args.returns[1])
            starts == {s \in 0..n : s < n - args.window /\ s % args.step = 0}
            factor == IF analyzer.sampling_freq = "D" THEN 252
                      ELSE IF analyzer.sampling_freq = "M" THEN 12 ELSE 1
        IN  /\ Len(ret.results) = Cardinality(starts)
            /\ n <= args.window => ret.results = << >>
            /\ \A k \in 1..Len(ret.results) :
                  LET start == (k - 1) * args.step
                      row   == ret.results[k]
                  IN  /\ start \in starts
                      /\ row.date = start + args.window - 1
                      /\ row.date < n - 1
                      /\ DOMAIN row.vol = 1..Len(args.returns)
                      /\ \A asset \in 1..Len(args.returns) :
                            row.vol[asset] =
                              StdTimes(SubSeq(args.returns[asset], start + 1,
                                              start + args.window), factor)

\* six rows, window 3, step 2: the rows of the windows [0, 3) and [2, 5),
\* and none for [3, 6), with a volatility that is not zero
C27_Witness ==
    /\ InRolling
    /\ ~ret.raised
    /\ Len(args.returns[1]) = 6
    /\ args.window = 3
    /\ args.step = 2
    /\ Len(ret.results) = 2
    /\ ret.results[1].date = 2
    /\ ret.results[2].date = 4
    /\ ret.results[2].vol[1].sq_num > 0

----------------------------------------------------------------------------
(* the built-in band tables *)

\* C29: on 'D' and 'M' analyzers every band that decompose_frequency_bands
\* filters with both bounds has, after division by 0.5 and clamping to
\* [0.001, 0.95], a lower cutoff strictly below its upper cutoff: no
\* built-in band is degenerate.
C29_BuiltInBandsNotDegenerate ==
    (InDecompose /\ ~ret.raised) =>
        LET clamped(f) == IF 2 * f < 3 THEN 3 ELSE IF 2 * f > 2850 THEN 2850 ELSE 2 * f
        IN  \A k \in 1..Len(ret.calls) :
              (~ret.calls[k].low_freq.isNone /\ ~ret.calls[k].high_freq.isNone) =>
                  /\ clamped(ret.calls[k].low_freq.v) < clamped(ret.calls[k].high_freq.v)
                  /\ (args.libs[ret.calls[k].band] = "pass" /\ Len(args.data) > 21) =>
                        ret.calls[k].filtered = args.data

\* short_term of the monthly table, whose upper bound 0.5 is clamped to
\* 0.95, is filtered as a band-pass and the signal comes through
C29_Witness ==
    /\ InDecompose
    /\ ~ret.raised
    /\ analyzer.sampling_freq = "M"
    /\ \E k \in 1..Len(ret.calls) :
          /\ ret.calls[k].band = "short_term"
          /\ ret.calls[k].high_freq = Some(1500)
          /\ ret.calls[k].low_freq = Some(1000)
          /\ ret.calls[k].filtered = args.data
          /\ \E i \in 1..Len(args.data) : args.data[i] # 0

----------------------------------------------------------------------------
(* the dashboard *)

\* C26: the results on the page were computed from the table on the page:
\* after a different table is loaded the previous table's report set is
\* not displayed, nor indexed by the new table's asset names, before a new
\* analysis has run.
C26_ResultsOfLoadedTable ==
    (~page.results.isNone) =>
        /\ ~page.df.isNone
        /\ page.results.v = ReportSet(page.df.v)
        /\ page.stl # "KeyError"

\* C28: a run of the script in which the analysis run shows its error
\* leaves st.session_state.analysis_results as it was, and a run that
\* changes it stores the complete report set of the table on the page.
C28_FailedRunKeepsResults ==
    [][ /\ page'.analysis_error =>
              session_state'.analysis_results = session_state.analysis_results
        /\ session_state'.analysis_results # session_state.analysis_results =>
              /\ ~session_state'.analysis_results.isNone
              /\ ~page'.df.isNone
              /\ DOMAIN session_state'.analysis_results.v = ReportKeys
              /\ session_state'.analysis_results.v = ReportSet(page'.df.v)
      ]_vars

\* an analysis of b.csv has failed and the complete report set of a.csv,
\* stored by an earlier run, is still in the session
C28_Witness ==
    /\ page.analysis_error
    /\ uploaded_file = Some("b.csv")
    /\ ~session_state.analysis_results.isNone
    /\ session_state.analysis_results.v = ReportSet(read_csv("a.csv").df)

====
